---- MODULE Spec2Model ----
(***************************************************************************)
(* A model of the object mapper of custom-nestjs-automapper: the Mapper    *)
(* facade (registry, keyed index, compiled-closure caches, per-source      *)
(* instance cache), the compiled closure (default copy, explicit field     *)
(* functions, decorator-driven step) and the naming converter.             *)
(*                                                                         *)
(* Property names are sequences of one-character strings, so that the      *)
(* naming converter can be computed the way the code computes it.          *)
(* Field values are strings: "undefined", "null" and a few primitives.     *)
(* Objects live in a heap indexed by reference; a class is a type          *)
(* identity that carries a (not necessarily unique) name.                  *)
(***************************************************************************)
EXTENDS Integers, Sequences, FiniteSets, TLC

VARIABLES
    registry,            \* Mapper.registry: the list of entries, in push order
    reverseRegistry,     \* Mapper.reverseRegistry: registry key -> entry
    compiledMapFns,      \* registry key -> the entry the sync closure captured
    compiledAsyncMapFns, \* registry key -> the entry the async closure captured
    instanceCache,       \* source reference -> destination class -> result reference
    heap,                \* reference -> object (class, own fields, enumeration order)
    globalOptions,       \* Mapper.globalOptions
    cacheConfig,         \* Mapper.cacheConfig
    validationRules,     \* Mapper.validationRules: "Type.field" -> list of rules
    promises,            \* the element promises of the mapArrayAsync call in flight
    validation,          \* the validate call in flight or last made
    call                 \* what the last public call did and returned

vars == <<registry, reverseRegistry, compiledMapFns, compiledAsyncMapFns,
          instanceCache, heap, globalOptions, cacheConfig, validationRules,
          promises, validation, call>>

----------------------------------------------------------------------------
(* Values *)

UNDEF == "undefined"
NULL == "null"

\* The marker of a record slot that holds nothing.
None == "none"

\* The element of a one-element set.  The({e(x) : x \in {d}}) is e with x
\* standing for the value of d, computed once.
The(S) == CHOOSE x \in S : TRUE

----------------------------------------------------------------------------
(* Property names and the naming converter *)

nx == <<"x">>
ny == <<"y">>
nz == <<"z">>
nw == <<"w">>
nu_n == <<"u", "_", "n">>
nuN == <<"u", "N">>
nx_ == <<"x", "_">>

UpperCase == {"X", "Y", "Z", "W", "U", "N"}

toLowerCase(c) ==
    CASE c = "X" -> "x" [] c = "Y" -> "y" [] c = "Z" -> "z" [] c = "W" -> "w"
      [] c = "U" -> "u" [] c = "N" -> "n" [] OTHER -> c

toUpperCase(c) ==
    CASE c = "x" -> "X" [] c = "y" -> "Y" [] c = "z" -> "Z" [] c = "w" -> "W"
      [] c = "u" -> "U" [] c = "n" -> "N" [] OTHER -> c

\* propertyName.replace(/([A-Z])/g, ' $1')
RECURSIVE SpaceBeforeCapitals(_)
SpaceBeforeCapitals(s) ==
    IF s = <<>> THEN <<>>
    ELSE (IF Head(s) \in UpperCase THEN <<" ", Head(s)>> ELSE <<Head(s)>>)
            \o SpaceBeforeCapitals(Tail(s))

\* String.prototype.trim, for the one whitespace character the model has
RECURSIVE TrimLeft(_)
TrimLeft(s) == IF s # <<>> /\ Head(s) = " " THEN TrimLeft(Tail(s)) ELSE s

RECURSIVE TrimRight(_)
TrimRight(s) ==
    IF s # <<>> /\ s[Len(s)] = " " THEN TrimRight(SubSeq(s, 1, Len(s) - 1)) ELSE s

Trim(s) == TrimRight(TrimLeft(s))

\* s.split(sep) for a one-character separator: n separators give n + 1 words,
\* empty ones included.  cur is the word being read, acc the words read.
RECURSIVE SplitChar(_, _, _, _)
SplitChar(s, sep, cur, acc) ==
    IF s = <<>> THEN Append(acc, cur)
    ELSE IF Head(s) = sep THEN SplitChar(Tail(s), sep, <<>>, Append(acc, cur))
    ELSE SplitChar(Tail(s), sep, Append(cur, Head(s)), acc)

\* s.split(/[\s_]+/): a run of separator characters separates once; a leading
\* or trailing run leaves an empty first or last word.
RECURSIVE SplitRuns(_, _, _, _)
SplitRuns(s, inRun, cur, acc) ==
    IF s = <<>> THEN Append(acc, cur)
    ELSE IF Head(s) \in {" ", "_"}
         THEN IF inRun THEN SplitRuns(Tail(s), TRUE, cur, acc)
              ELSE SplitRuns(Tail(s), TRUE, <<>>, Append(acc, cur))
    ELSE SplitRuns(Tail(s), FALSE, Append(cur, Head(s)), acc)

LowerWord(w) == [i \in 1..Len(w) |-> toLowerCase(w[i])]

\* w[0].toUpperCase() + w.slice(1); w[0] of an empty word is undefined and the
\* call on it raises a TypeError
CanCapitalize(w) == w # <<>>
Capitalize(w) == <<toUpperCase(w[1])>> \o Tail(w)

RECURSIVE Join(_, _)
Join(words, sep) ==
    IF words = <<>> THEN <<>>
    ELSE IF Len(words) = 1 THEN words[1]
    ELSE words[1] \o sep \o Join(Tail(words), sep)

Styles == {"camelCase", "snake_case", "PascalCase", "kebab-case"}

NamingWords(propertyName, from) ==
    The({[i \in 1..Len(raw) |-> LowerWord(raw[i])] :
         raw \in {CASE from = "camelCase" ->
                        SplitRuns(SpaceBeforeCapitals(propertyName), FALSE, <<>>, <<>>)
                    [] from = "PascalCase" ->
                        SplitRuns(Trim(SpaceBeforeCapitals(propertyName)), FALSE,
                                  <<>>, <<>>)
                    [] from = "snake_case" -> SplitChar(propertyName, "_", <<>>, <<>>)
                    [] OTHER -> SplitChar(propertyName, "-", <<>>, <<>>)}})

\* Whether convertNamingConvention returns (TRUE) or raises a TypeError
NamingReturns(propertyName, from, to) ==
    \E words \in {NamingWords(propertyName, from)} :
        CASE to = "camelCase" -> \A i \in 2..Len(words) : CanCapitalize(words[i])
          [] to = "PascalCase" -> \A i \in 1..Len(words) : CanCapitalize(words[i])
          [] OTHER -> TRUE

\* The string convertNamingConvention returns, where it returns
convertNamingConvention(propertyName, from, to) ==
    The({CASE to = "camelCase" ->
                Join([i \in 1..Len(words) |->
                          IF i = 1 THEN words[i] ELSE Capitalize(words[i])], <<>>)
           [] to = "PascalCase" ->
                Join([i \in 1..Len(words) |-> Capitalize(words[i])], <<>>)
           [] to = "snake_case" -> Join(words, <<"_">>)
           [] OTHER -> Join(words, <<"-">>) :
         words \in {NamingWords(propertyName, from)}})

----------------------------------------------------------------------------
(* Classes, objects and the heap *)

\* Type identities.  "A_dup" is a second class declared with the name A and
\* "B_dup" a second class declared with the name B.  B, C and D carry
\* annotations on their fields; the fields of U and V are declared without
\* an initialiser and marked with the AutoMap decorator.
Classes == {"A", "A_dup", "B", "B_dup", "C", "D", "N", "M", "U", "V"}

\* Function.prototype.name of a class
ClassName(c) == CASE c = "A_dup" -> "A" [] c = "B_dup" -> "B" [] OTHER -> c

\* References.  A field value that is one of these strings is a reference to
\* the heap object of that name.
AllRefs == <<"r1", "r2", "r3", "r4", "r5", "r6", "r7", "r8", "r9", "r10", "r11", "r12">>

Refs == {AllRefs[i] : i \in DOMAIN AllRefs}

\* A heap slot that holds no object
Free == [cls |-> None, f |-> <<>>, keys |-> <<>>]

\* An object: its class, its own enumerable fields and their enumeration order
Obj(cls, keys, vals) ==
    [cls |-> cls, f |-> [k \in {keys[i] : i \in 1..Len(keys)} |->
                            vals[CHOOSE i \in 1..Len(keys) : keys[i] = k]],
     keys |-> keys]

\* k in obj
Has(obj, k) == k \in DOMAIN obj.f

\* obj[k]
Get(obj, k) == IF Has(obj, k) THEN obj.f[k] ELSE UNDEF

\* obj[k] = v
Put(obj, k, v) ==
    The({[o EXCEPT !.f = (k :> v) @@ o.f,
                   !.keys = IF Has(o, k) THEN o.keys ELSE Append(o.keys, k)] :
         o \in {obj}})

\* new (entry.destination)(): the default-constructed instance of a class
DefaultInstance(cls) ==
    CASE cls \in {"B"} ->
            Obj(cls, <<nx, ny, nw, nuN>>, <<"dflt", "dflt", UNDEF, "dflt">>)
      [] cls = "B_dup" -> Obj(cls, <<nx>>, <<"dup">>)
      [] cls = "C" -> Obj(cls, <<nx, nw>>, <<"dflt", UNDEF>>)
      [] cls = "M" -> Obj(cls, <<nx>>, <<"dflt">>)
      [] cls = "D" -> Obj(cls, <<nx>>, <<"dflt">>)
      \* a declared field with no initialiser: not emitted by the compiler
      \* (U), or defined as undefined under useDefineForClassFields (V)
      [] cls = "U" -> Obj(cls, <<>>, <<>>)
      [] cls = "V" -> Obj(cls, <<nx, ny>>, <<UNDEF, UNDEF>>)
      [] cls \in {"A", "A_dup"} ->
            Obj(cls, <<nx, ny, nw, nu_n>>, <<UNDEF, UNDEF, UNDEF, UNDEF>>)
      [] OTHER -> Obj(cls, <<>>, <<>>)

----------------------------------------------------------------------------
(* Field functions, hooks and options *)

\* A field function of a mapping config (MapperFunction).
\*   const: src => val            throw: src => { throw ... }
\*   prop:  src => src[key]       from:  mapper.mapFrom(key), which also
\*                                       carries __sourcePath = key
Fn(kind, val, key) == [kind |-> kind, val |-> val, key |-> key]

FnConst(v) == Fn("const", v, <<>>)
FnThrow == Fn("throw", UNDEF, <<>>)
FnProp(k) == Fn("prop", UNDEF, k)

\* Mapper.mapFrom(sourcePath)
mapFrom(sourcePath) == Fn("from", UNDEF, sourcePath)

\* The exported helper mapFrom(sourcePath) of the utilities: source =>
\* resolveValue(source, sourcePath).  It carries no __sourcePath.
mapFromHelper(sourcePath) == Fn("path", UNDEF, sourcePath)

\* mapperFn(src): ok is FALSE when the function raises
ApplyFn(fn, src) ==
    CASE fn.kind = "const" -> [ok |-> TRUE, val |-> fn.val]
      [] fn.kind = "throw" -> [ok |-> FALSE, val |-> UNDEF]
      [] OTHER -> [ok |-> TRUE, val |-> Get(src, fn.key)]

\* An option flag is "on" (true), "off" (false) or "unset" (key absent)
Flags == {"unset", "on", "off"}

Truthy(flag) == flag = "on"

\* array.includes(k)
Includes(list, k) == \E i \in 1..Len(list) : list[i] = k

NoList == [given |-> FALSE, list |-> <<>>]
List(l) == [given |-> TRUE, list |-> l]

NoNaming == [given |-> FALSE, from |-> None, to |-> None]
Naming(from, to) == [given |-> TRUE, from |-> from, to |-> to]

\* A cache option object: absent, the Mapper's own cacheConfig object (alias),
\* or an object of its own with the enabled flag it holds
NoCache == [given |-> FALSE, alias |-> FALSE, enabled |-> "unset"]
Cache(enabled) == [given |-> TRUE, alias |-> FALSE, enabled |-> enabled]
CacheAlias == [given |-> TRUE, alias |-> TRUE, enabled |-> "unset"]

\* MappingEntryOptions with no key set
NoOptions ==
    [skipNulls |-> "unset", skipUndefined |-> "unset", deepClone |-> "unset",
     strict |-> "unset", deepCloneBeforeMap |-> "unset",
     beforeMap |-> "unset", afterMap |-> "unset",
     ignore |-> NoList, include |-> NoList,
     cache |-> NoCache, convertNaming |-> NoNaming]

\* A hook: "unset", "id" (returns its argument), "throw" (raises),
\* "setx" (returns a copy of its argument with x set to "hook"), "mutx"
\* (sets x to "hook" on its argument and returns it)
HookIsFunction(h) == h # "unset"

\* Error values.  A raw error is what a hook, a field function or a library
\* call raised; a mapping error is what createMappingError builds: its message
\* names both types and it keeps the error it wraps as originalError.
RawError(what) ==
    [wrapped |-> FALSE, what |-> what, sourceType |-> None,
     destinationType |-> None, originalError |-> None]

NoError == RawError(None)

\* Mapper.createMappingError(sourceType, destinationType, message, originalError)
createMappingError(sourceType, destinationType, message, originalError) ==
    [wrapped |-> TRUE, what |-> message, sourceType |-> sourceType,
     destinationType |-> destinationType, originalError |-> originalError.what]

----------------------------------------------------------------------------
(* Metadata the decorators leave on a destination class *)

\* The fields of a class that carry the AutoMap() property decorator
AutoMapFields(cls) == IF cls \in {"U", "V"} THEN <<nx, ny>> ELSE <<>>

\* The field names of the metadata object that application code defined on
\* a class itself with Reflect.defineMetadata(AUTO_MAP_METADATA_KEY, {...}, cls)
ClassLevelFields(cls) ==
    CASE cls = "B" -> <<nw, nz, nx>>
      [] cls = "C" -> <<nw, nx>>
      [] cls = "D" -> <<nz>>
      [] OTHER -> <<>>

\* Where metadata is defined under AUTO_MAP_METADATA_KEY.  The AutoMap
\* decorator defines it on (target, propertyKey), target being the prototype
\* of the class; the application code above defines it on the class, with
\* no property key (the empty name).
AutoMapMetadata ==
    {[target |-> <<"prototype", c>>, propertyKey |-> AutoMapFields(c)[i]] :
        c \in {cl \in Classes : AutoMapFields(cl) # <<>>}, i \in 1..2}
    \cup {[target |-> <<"class", c>>, propertyKey |-> <<>>] :
             c \in {cl \in Classes : ClassLevelFields(cl) # <<>>}}

\* Object.keys(Reflect.getMetadata(AUTO_MAP_METADATA_KEY, cls) || {}): the
\* lookup is on the class itself, with no property key
AutoMeta(cls) ==
    IF [target |-> <<"class", cls>>, propertyKey |-> <<>>] \in AutoMapMetadata
    THEN ClassLevelFields(cls)
    ELSE <<>>

\* Reflect.getMetadata(MAP_PROPERTY_METADATA_KEY, cls.prototype, key): the
\* dotted path, split at the dots; the empty path stands for no metadata
SourcePath(cls, key) ==
    CASE cls = "C" /\ key = nw -> <<nz, nx>>
      [] cls = "D" /\ key = nz -> <<nw>>
      [] OTHER -> <<>>

\* Reflect.getMetadata(MAP_NESTED_METADATA_KEY, cls.prototype, key)(): the
\* nested destination class, None for no metadata
NestedType(cls, key) ==
    IF cls \in {"B", "D"} /\ key = nz THEN "M" ELSE None

\* Reflect.getMetadata(TRANSFORM_METADATA_KEY, cls.prototype, key): "default"
\* is the transformer of @Default("tdef"), value => value ?? "tdef"
Transformer(cls, key) ==
    IF cls = "B" /\ key = nw THEN "default" ELSE None

ApplyTransformer(t, val) ==
    IF t = "default" /\ val \in {NULL, UNDEF} THEN "tdef" ELSE val

----------------------------------------------------------------------------
(* Heap allocation and the deep-clone utility *)

\* The reference a newly created object gets: the first free slot
Alloc(hp) ==
    AllRefs[CHOOSE i \in DOMAIN AllRefs :
                /\ hp[AllRefs[i]] = Free
                /\ \A j \in 1..(i - 1) : hp[AllRefs[j]] # Free]

PlainObject == [cls |-> "Object", f |-> <<>>, keys |-> <<>>]

\* deepClone(obj) of an object: a plain object holding a deep clone of every
\* own field; a primitive field value is returned as it is, an object-valued
\* one is cloned into a new heap object.  Returns the heap and the clone.
RECURSIVE DeepCloneFields(_, _, _, _)
DeepCloneFields(hp, obj, ks, acc) ==
    IF ks = <<>> THEN [hp |-> hp, obj |-> acc]
    ELSE The({IF v \in Refs
              THEN The({The({DeepCloneFields([inner.hp EXCEPT ![r] = inner.obj],
                                             obj, Tail(ks), Put(acc, k, r)) :
                             r \in {Alloc(inner.hp)}}) :
                        inner \in {DeepCloneFields(hp, hp[v], hp[v].keys,
                                                   PlainObject)}})
              ELSE DeepCloneFields(hp, obj, Tail(ks), Put(acc, k, v)) :
              k \in {Head(ks)}, v \in {obj.f[Head(ks)]}})

deepClone(hp, obj) == DeepCloneFields(hp, obj, obj.keys, PlainObject)

\* deepClone(value) of a field value
deepCloneValue(hp, v) ==
    IF v \in Refs
    THEN The({[hp |-> [c.hp EXCEPT ![Alloc(c.hp)] = c.obj], val |-> Alloc(c.hp)] :
              c \in {deepClone(hp, hp[v])}})
    ELSE [hp |-> hp, val |-> v]

----------------------------------------------------------------------------
(* The registry *)

\* A registry entry (MappingRegistryEntry).  config is the list of
\* (destination key, field function) pairs in the config object's key order;
\* a missing config and an empty one behave alike and are the empty list.
Entry(source, destination, config, options) ==
    [source |-> source, destination |-> destination, config |-> config,
     options |-> options]

\* What a map lookup yields when it finds nothing (undefined)
NoEntry == Entry(None, None, <<>>, NoOptions)

\* entry.config[destKey] is a function
ConfigHas(config, destKey) == \E i \in 1..Len(config) : config[i].key = destKey

Names == {ClassName(c) : c \in Classes} \cup {"Object", "String"}

\* Mapper.getRegistryKey: `${source.name}->${destination.name}`
getRegistryKey(source, destination) == <<ClassName(source), ClassName(destination)>>

Keys == Names \X Names

\* Mapper.findEntry: the keyed index first, then a scan of the list by identity
FindEntryIn(rr, reg, source, destination) ==
    LET key == getRegistryKey(source, destination)
        found == {i \in 1..Len(reg) :
                     reg[i].source = source /\ reg[i].destination = destination}
    IN IF rr[key] # NoEntry THEN rr[key]
       ELSE IF found # {} THEN reg[CHOOSE i \in found : \A j \in found : i <= j]
       ELSE NoEntry

findEntry(source, destination) ==
    FindEntryIn(reverseRegistry, registry, source, destination)

\* Mapper.isCacheEnabled(entry)
isCacheEnabled(entry) ==
    IF entry.options.cache.enabled # "unset"
    THEN Truthy(entry.options.cache.enabled)
    ELSE Truthy(cacheConfig.enabled)

\* A faulty cache lookup, keyed by the source's field values instead of its
\* identity: it finds the result cached for any object equal to v field for
\* field.  C3_CacheKeyedByIdentity must not hold of it.
CacheLookupByValue(ic, v, destinationClass) ==
    LET equal == {r \in Refs : /\ heap[r] # Free
                               /\ heap[r] = heap[v]
                               /\ ic[r][destinationClass] # None}
    IN IF v \in Refs /\ equal # {}
       THEN ic[CHOOSE r \in equal : TRUE][destinationClass]
       ELSE None

\* this.instanceCache.get(sourceObj)?.get(destinationClass): None when the
\* source object has no row or the row has no result for the class
CacheLookup(ic, v, destinationClass) ==
    IF v \in Refs THEN ic[v][destinationClass] ELSE None

\* Mapper.isGlobalCacheEnabled()
isGlobalCacheEnabled == Truthy(cacheConfig.enabled)

\* The cache object a cache option stands for: the alias is the Mapper's own
\* cacheConfig object, read at the time of use
DerefCache(c) == IF c.alias THEN Cache(cacheConfig.enabled) ELSE c

\* { ...base, ...override } for one key
Over(b, o) == IF o # "unset" THEN o ELSE b

\* Array.from(new Set(list)): the first occurrence of every element, in order
RECURSIVE Dedupe(_, _)
Dedupe(list, acc) ==
    IF list = <<>> THEN acc
    ELSE Dedupe(Tail(list), IF Includes(acc, Head(list)) THEN acc
                            ELSE Append(acc, Head(list)))

\* A faulty merge that is the plain spread { ...base, ...override }: the
\* override's lists and cache object replace the base's.
\* C16_OptionsMergedOverGlobals must not hold of it.
mergeOptionsBySpreadOnly(base, override) ==
    [skipNulls |-> Over(base.skipNulls, override.skipNulls),
     skipUndefined |-> Over(base.skipUndefined, override.skipUndefined),
     deepClone |-> Over(base.deepClone, override.deepClone),
     strict |-> Over(base.strict, override.strict),
     deepCloneBeforeMap |-> Over(base.deepCloneBeforeMap, override.deepCloneBeforeMap),
     beforeMap |-> Over(base.beforeMap, override.beforeMap),
     afterMap |-> Over(base.afterMap, override.afterMap),
     ignore |-> IF override.ignore.given THEN override.ignore ELSE base.ignore,
     include |-> IF override.include.given THEN override.include ELSE base.include,
     cache |-> IF override.cache.given THEN DerefCache(override.cache)
               ELSE IF base.cache.given THEN DerefCache(base.cache) ELSE NoCache,
     convertNaming |-> IF override.convertNaming.given THEN override.convertNaming
                       ELSE base.convertNaming]

\* Mapper.mergeOptions(base, override)
mergeOptions(base, override) ==
    [skipNulls |-> Over(base.skipNulls, override.skipNulls),
     skipUndefined |-> Over(base.skipUndefined, override.skipUndefined),
     deepClone |-> Over(base.deepClone, override.deepClone),
     strict |-> Over(base.strict, override.strict),
     deepCloneBeforeMap |-> Over(base.deepCloneBeforeMap, override.deepCloneBeforeMap),
     beforeMap |-> Over(base.beforeMap, override.beforeMap),
     afterMap |-> Over(base.afterMap, override.afterMap),
     ignore |-> IF base.ignore.given \/ override.ignore.given
                THEN List(Dedupe(base.ignore.list \o override.ignore.list, <<>>))
                ELSE NoList,
     include |-> IF base.include.given \/ override.include.given
                 THEN List(Dedupe(base.include.list \o override.include.list, <<>>))
                 ELSE NoList,
     cache |-> IF base.cache.given \/ override.cache.given
               THEN Cache(Over(DerefCache(base.cache).enabled,
                               DerefCache(override.cache).enabled))
               ELSE NoCache,
     convertNaming |-> IF override.convertNaming.given THEN override.convertNaming
                       ELSE base.convertNaming]

----------------------------------------------------------------------------
(* The compiled closure *)

\* One step a call executed: a hook, a field function, or a write of the
\* decorator-driven step, with the entry it belongs to
Event(ev, entry, key) == [ev |-> ev, entry |-> entry, key |-> key]

\* A faulty skip test that has lost its skipNulls line.
\* C8_DefaultCopyIsReference must not hold of it.
SkipFieldIgnoringNulls(entry, src, k) ==
    LET o == entry.options
    IN \/ Includes(o.ignore.list, k)
       \/ o.include.given /\ ~Includes(o.include.list, k)
       \/ Truthy(o.skipUndefined) /\ src.f[k] = UNDEF

\* compileMapFunction, "Copy primitives": the four tests that make the loop
\* continue without copying src[k]
SkipField(entry, src, k) ==
    LET o == entry.options
    IN \/ Includes(o.ignore.list, k)
       \/ o.include.given /\ ~Includes(o.include.list, k)
       \/ Truthy(o.skipNulls) /\ src.f[k] = NULL
       \/ Truthy(o.skipUndefined) /\ src.f[k] = UNDEF

\* compileMapFunction, "Copy primitives": the default field copy.  ok is
\* FALSE when the naming converter raised.
RECURSIVE CopyPrimitives(_, _, _, _, _)
CopyPrimitives(entry, src, ks, dest, hp) ==
    IF ks = <<>> THEN [ok |-> TRUE, dest |-> dest, hp |-> hp]
    ELSE The({
        IF SkipField(entry, src, k)
        THEN CopyPrimitives(entry, src, Tail(ks), d, h)
        ELSE IF /\ entry.options.convertNaming.given
                /\ ~NamingReturns(k, entry.options.convertNaming.from,
                                  entry.options.convertNaming.to)
        THEN [ok |-> FALSE, dest |-> d, hp |-> h]
        ELSE The({
            IF Has(d, targetKey)
            THEN The({CopyPrimitives(entry, src, Tail(ks), d2, c.hp) :
                      d2 \in {Put(d, targetKey, c.val)}})
            ELSE CopyPrimitives(entry, src, Tail(ks), d, h) :
            targetKey \in {IF entry.options.convertNaming.given
                           THEN convertNamingConvention(k,
                                    entry.options.convertNaming.from,
                                    entry.options.convertNaming.to)
                           ELSE k},
            c \in {IF Truthy(entry.options.deepClone)
                   THEN deepCloneValue(h, src.f[k])
                   ELSE [hp |-> h, val |-> src.f[k]]}}) :
        k \in {Head(ks)}, d \in {dest}, h \in {hp}})

\* A faulty loop body that writes the function's value only into a field the
\* default copy left undefined.  C7_ExplicitFunctionWinsUnlessSuppressed must
\* not hold of it.
ApplyFieldKeepsCopied(entry, dest, destKey, r) ==
    LET o == entry.options
    IN IF ~r.ok THEN [ok |-> ~Truthy(o.strict), dest |-> dest]
       ELSE IF Truthy(o.skipNulls) /\ r.val = NULL THEN [ok |-> TRUE, dest |-> dest]
       ELSE IF Truthy(o.skipUndefined) /\ r.val = UNDEF THEN [ok |-> TRUE, dest |-> dest]
       ELSE IF Get(dest, destKey) # UNDEF THEN [ok |-> TRUE, dest |-> dest]
       ELSE [ok |-> TRUE, dest |-> Put(dest, destKey, r.val)]

\* A faulty loop body whose catch block clears the field when it swallows the
\* error.  C9_FieldFunctionFailurePolicy must not hold of it.
ApplyFieldClearsOnRaise(entry, dest, destKey, r) ==
    LET o == entry.options
    IN IF ~r.ok
       THEN [ok |-> ~Truthy(o.strict),
             dest |-> IF Truthy(o.strict) THEN dest ELSE Put(dest, destKey, UNDEF)]
       ELSE IF Truthy(o.skipNulls) /\ r.val = NULL THEN [ok |-> TRUE, dest |-> dest]
       ELSE IF Truthy(o.skipUndefined) /\ r.val = UNDEF THEN [ok |-> TRUE, dest |-> dest]
       ELSE [ok |-> TRUE, dest |-> Put(dest, destKey, r.val)]

\* compileMapFunction, "Apply configured mapping functions": the body of the
\* loop for one destKey, given what mapperFn(src) did (r).  ok is FALSE when
\* the function raised under strict and the error leaves the closure.
ApplyField(entry, dest, destKey, r) ==
    LET o == entry.options
    IN IF ~r.ok THEN [ok |-> ~Truthy(o.strict), dest |-> dest]
       ELSE IF Truthy(o.skipNulls) /\ r.val = NULL THEN [ok |-> TRUE, dest |-> dest]
       ELSE IF Truthy(o.skipUndefined) /\ r.val = UNDEF THEN [ok |-> TRUE, dest |-> dest]
       ELSE [ok |-> TRUE, dest |-> Put(dest, destKey, r.val)]

\* compileMapFunction, "Apply configured mapping functions": the loop over the
\* keys of entry.config
RECURSIVE ApplyConfig(_, _, _, _, _)
ApplyConfig(entry, src, cfg, dest, trace) ==
    IF cfg = <<>> THEN [ok |-> TRUE, dest |-> dest, trace |-> trace]
    ELSE The({
        IF ~a.ok THEN [ok |-> FALSE, dest |-> d, trace |-> tr]
        ELSE ApplyConfig(entry, src, Tail(cfg), a.dest, tr) :
        d \in {dest},
        a \in {ApplyField(entry, dest, Head(cfg).key, ApplyFn(Head(cfg).fn, src))},
        tr \in {Append(trace, Event("fn", entry, Head(cfg).key))}})

\* let val = src; for (const p of parts) val = val?.[p]
RECURSIVE WalkPath(_, _, _)
WalkPath(hp, obj, parts) ==
    IF parts = <<>> THEN UNDEF
    ELSE LET v == Get(obj, Head(parts))
         IN IF Len(parts) = 1 THEN v
            ELSE IF v \in Refs THEN WalkPath(hp, hp[v], Tail(parts))
            ELSE UNDEF

\* A hook applied to an object: ok is FALSE when the hook raises
\* A faulty hook call whose return value is dropped.
\* C23_CallOrder must not hold of it.
ApplyHookDroppingResult(h, obj) == [ok |-> h # "throw", obj |-> obj]

ApplyHook(h, obj) ==
    CASE h = "throw" -> [ok |-> FALSE, obj |-> obj]
      [] h \in {"setx", "mutx"} -> [ok |-> TRUE, obj |-> Put(obj, nx, "hook")]
      [] OTHER -> [ok |-> TRUE, obj |-> obj]

\* The object a map call's first argument denotes: a heap object, or a
\* primitive, whose constructor is String
SourceOf(hp, v) == IF v \in Refs THEN hp[v] ELSE [cls |-> "String", f |-> <<>>, keys |-> <<>>]

\* What a map call gives back.  ok: returned (ret is the result's reference)
\* or raised (err).  hit: served from the instance cache.  entry: the entry
\* the lookup found; ran: the entry whose closure ran; pre: the closure's
\* argument; afterCopy, afterFns, out: the destination after the default
\* copy, after the field functions and as the closure returned it.
Outcome(ok, err, ret, st, hit, entry, ran, pre, afterCopy, afterFns, out) ==
    [ok |-> ok, err |-> err, ret |-> ret, st |-> st, hit |-> hit, entry |-> entry,
     ran |-> ran, pre |-> pre, afterCopy |-> afterCopy, afterFns |-> afterFns,
     out |-> out]

RECURSIVE MapCall(_, _, _, _)

\* A faulty skip test that has lost its look at entry.config.
\* C10_AnnotationStepOnlyFillsUnset must not hold of it.
AutoSkipOnlyIfSet(entry, dest, destKey) ==
    Get(dest, destKey) # UNDEF

\* compileMapFunction, "Decorator-driven mappings": the test that makes the
\* loop continue without touching destKey
AutoSkip(entry, dest, destKey) ==
    ConfigHas(entry.config, destKey) \/ Get(dest, destKey) # UNDEF

\* compileMapFunction / compileAsyncMapFunction, "Decorator-driven mappings".
\* st is the mapper state a nested map call reads and changes.
RECURSIVE DecoratorStep(_, _, _, _, _, _)
DecoratorStep(entry, src, ks, dest, st, async) ==
    IF ks = <<>> THEN [ok |-> TRUE, err |-> NoError, dest |-> dest, st |-> st]
    ELSE The({
        IF AutoSkip(entry, d, destKey)
        THEN DecoratorStep(entry, src, Tail(ks), d, s, async)
        ELSE IF sourcePath # <<>>
        THEN The({DecoratorStep(entry, src, Tail(ks), d2, wrote, async) :
                  d2 \in {Put(d, destKey,
                              ApplyTransformer(transformer,
                                               WalkPath(s.hp, src, sourcePath)))}})
        ELSE IF nestedType # None
        THEN IF Get(src, destKey) \in {UNDEF, NULL}
             THEN The({DecoratorStep(entry, src, Tail(ks), d2, wrote, async) :
                       d2 \in {Put(d, destKey, Get(src, destKey))}})
             ELSE The({
                 IF m.ok
                 THEN The({DecoratorStep(entry, src, Tail(ks), d2, s2, async) :
                           d2 \in {Put(d, destKey, m.ret)},
                           s2 \in {[m.st EXCEPT !.trace =
                                       Append(@, Event("auto", entry, destKey))]}})
                 ELSE [ok |-> FALSE, err |-> m.err, dest |-> d, st |-> m.st] :
                 m \in {MapCall(s, Get(src, destKey), nestedType, async)}})
        ELSE IF Has(src, destKey)
        THEN The({DecoratorStep(entry, src, Tail(ks), d2, wrote, async) :
                  d2 \in {Put(d, destKey,
                              ApplyTransformer(transformer, src.f[destKey]))}})
        ELSE DecoratorStep(entry, src, Tail(ks), d, s, async) :
        destKey \in {Head(ks)}, d \in {dest}, s \in {st},
        nestedType \in {NestedType(entry.destination, Head(ks))},
        sourcePath \in {SourcePath(entry.destination, Head(ks))},
        transformer \in {Transformer(entry.destination, Head(ks))},
        wrote \in {[st EXCEPT !.trace = Append(@, Event("auto", entry, Head(ks)))]}})

\* The closure compileMapFunction (async: compileAsyncMapFunction) builds for
\* an entry, applied to src
CompiledFn(entry, src, st, async) ==
    The({
        IF ~c.ok
        THEN [ok |-> FALSE, err |-> RawError("TypeError"), dest |-> c.dest, st |-> st,
              afterCopy |-> Free, afterFns |-> Free]
        ELSE The({
            IF ~a.ok
            THEN [ok |-> FALSE, err |-> RawError("fieldFunction"), dest |-> a.dest,
                  st |-> [st EXCEPT !.hp = c.hp, !.trace = a.trace],
                  afterCopy |-> c.dest, afterFns |-> Free]
            ELSE The({[ok |-> d.ok, err |-> d.err, dest |-> d.dest, st |-> d.st,
                       afterCopy |-> c.dest, afterFns |-> a.dest] :
                      d \in {DecoratorStep(entry, src, AutoMeta(entry.destination),
                                 a.dest, [st EXCEPT !.hp = c.hp, !.trace = a.trace],
                                 async)}}) :
            a \in {ApplyConfig(entry, src, entry.config, c.dest, st.trace)}}) :
        c \in {CopyPrimitives(entry, src, src.keys,
                              DefaultInstance(entry.destination), st.hp)}})

\* What a raise inside the body of a map call becomes: map catches it and
\* wraps it, mapAsync has no try/catch and rejects with it
Thrown(async, sn, dn, err) ==
    IF async THEN err ELSE createMappingError(sn, dn, "Mapping failed", err)

\* Mapper.map (async: Mapper.mapAsync) once the entry is found and the cache
\* gave nothing: beforeMap, the compiled closure, afterMap, the cache write
MapMiss(st, v, destinationClass, async, sourceObj, entry) ==
    The({
        IF ~before.ok
        THEN Outcome(FALSE, Thrown(async, sn, dn, RawError("beforeMap")), None, st1,
                     FALSE, entry, NoEntry, Free, Free, Free, Free)
        ELSE The({
            IF ~r.ok
            THEN Outcome(FALSE, Thrown(async, sn, dn, r.err), None, r.st, FALSE,
                         entry, compiled, before.obj, r.afterCopy, r.afterFns, Free)
            ELSE The({
                IF ~after.ok
                THEN Outcome(FALSE, Thrown(async, sn, dn, RawError("afterMap")), None,
                             [r.st EXCEPT !.trace = tr3], FALSE, entry, compiled,
                             before.obj, r.afterCopy, r.afterFns, r.dest)
                ELSE Outcome(TRUE, NoError, ref,
                             [r.st EXCEPT
                                 !.trace = tr3,
                                 !.hp[ref] = after.obj,
                                 !.ic = IF isCacheEnabled(entry) /\ v \in Refs
                                        THEN [@ EXCEPT ![v][destinationClass] = ref]
                                        ELSE @],
                             FALSE, entry, compiled, before.obj, r.afterCopy,
                             r.afterFns, r.dest) :
                after \in {IF HookIsFunction(entry.options.afterMap)
                           THEN ApplyHook(entry.options.afterMap, r.dest)
                           ELSE [ok |-> TRUE, obj |-> r.dest]},
                tr3 \in {IF HookIsFunction(entry.options.afterMap)
                         THEN Append(r.st.trace, Event("afterMap", entry, <<>>))
                         ELSE r.st.trace},
                ref \in {Alloc(r.st.hp)}}) :
            r \in {CompiledFn(compiled, before.obj,
                              IF async THEN [st1 EXCEPT !.caf[key] = compiled]
                              ELSE [st1 EXCEPT !.cf[key] = compiled],
                              async)}}) :
        sn \in {ClassName(sourceObj.cls)},
        dn \in {ClassName(destinationClass)},
        key \in {getRegistryKey(entry.source, entry.destination)},
        compiled \in {LET fns == IF async THEN st.caf ELSE st.cf
                          key == getRegistryKey(entry.source, entry.destination)
                      IN IF fns[key] # NoEntry THEN fns[key] ELSE entry},
        before \in {IF HookIsFunction(entry.options.beforeMap)
                    THEN IF async \/ Truthy(entry.options.deepCloneBeforeMap)
                         THEN ApplyHook(entry.options.beforeMap,
                                        deepClone(st.hp, sourceObj).obj)
                         ELSE ApplyHook(entry.options.beforeMap, sourceObj)
                    ELSE [ok |-> TRUE, obj |-> sourceObj]},
        st1 \in {[st EXCEPT
                    !.hp = IF /\ HookIsFunction(entry.options.beforeMap)
                              /\ (async \/ Truthy(entry.options.deepCloneBeforeMap))
                           THEN deepClone(st.hp, sourceObj).hp
                           ELSE IF entry.options.beforeMap = "mutx" /\ v \in Refs
                           THEN [@ EXCEPT ![v] = Put(sourceObj, nx, "hook")]
                           ELSE @,
                    !.trace = IF HookIsFunction(entry.options.beforeMap)
                              THEN Append(@, Event("beforeMap", entry, <<>>))
                              ELSE @]}})

\* Mapper.map (async: Mapper.mapAsync) on the value v, run to completion
MapCall(st, v, destinationClass, async) ==
    The({
        IF entry = NoEntry
        THEN Outcome(FALSE,
                     createMappingError(ClassName(sourceObj.cls),
                                        ClassName(destinationClass),
                                        "Mapping not found", NoError),
                     None, s, FALSE, NoEntry, NoEntry, Free, Free, Free, Free)
        ELSE IF isCacheEnabled(entry) /\ CacheLookup(s.ic, v, destinationClass) # None
        THEN Outcome(TRUE, NoError, CacheLookup(s.ic, v, destinationClass), s, TRUE,
                     entry, NoEntry, Free, Free, Free, Free)
        ELSE MapMiss(s, v, destinationClass, async, sourceObj, entry) :
        s \in {st},
        sourceObj \in {SourceOf(st.hp, v)},
        entry \in {findEntry(SourceOf(st.hp, v).cls, destinationClass)}})

----------------------------------------------------------------------------
(* Reclaiming objects nothing refers to *)

\* The objects the test keeps hold of for the whole run: the source objects
Preloaded == {"r1", "r2", "r3", "r4", "r5", "r6"}

FieldRefs(obj) == {obj.f[k] : k \in DOMAIN obj.f} \cap Refs

\* What is reachable from the references in R: through fields, and through
\* the instance cache (a WeakMap: a row lives as long as its key does)
RECURSIVE Reach(_, _, _)
Reach(hp, ic, R) ==
    The({IF next = R THEN R ELSE Reach(hp, ic, next) :
         next \in {R \cup UNION {FieldRefs(hp[r]) : r \in R}
                     \cup (UNION {{ic[r][c] : c \in Classes} : r \in R} \cap Refs)}})

\* The heap and the instance cache once everything unreachable from roots is
\* reclaimed
Collect(hp, ic, roots) ==
    The({[hp |-> [r \in Refs |-> IF r \in live THEN hp[r] ELSE Free],
          ic |-> [r \in Refs |-> IF r \in live THEN ic[r]
                                 ELSE [c \in Classes |-> None]]] :
         live \in {Reach(hp, ic, roots)}})

----------------------------------------------------------------------------
(* The Mapper's state and operations *)

EmptyIndex == [k \in Keys |-> NoEntry]
EmptyCache == [r \in Refs |-> [c \in Classes |-> None]]

\* The property names the model uses
PropertyNames == {nx, ny, nz, nw, nu_n, nuN, nx_}

\* new Map() of validation rules: no key has a rule
NoRules == [k \in Names \X PropertyNames |-> <<>>]

\* A ValidationRule: its predicate and its message
Rule(validate, message) == [validate |-> validate, message |-> message]

\* No validate call was made.  field and rule are the position of the rule
\* whose turn it is, evaluated the positions of the rules whose predicate
\* was called, in call order.
NoValidation ==
    [obj |-> None, st |-> None, field |-> 1, rule |-> 1, evaluated |-> <<>>,
     err |-> [field |-> <<>>, message |-> None]]

\* An element promise of mapArrayAsync: pending, fulfilled with val or
\* rejected with err; entry is the entry its mapAsync call found
Task(st, entry, val, err) == [st |-> st, entry |-> entry, val |-> val, err |-> err]

\* The promise Promise.all returns: from is the element whose rejection it
\* carries, val the array it is fulfilled with
Settlement(st, from, val, err) == [st |-> st, from |-> from, val |-> val, err |-> err]

\* No mapArrayAsync call was made.  settled lists the elements in the order
\* their promises settled.
NoPromises ==
    [items |-> <<>>, dst |-> None, tasks |-> <<>>, settled |-> <<>>,
     all |-> Settlement(None, 0, <<>>, NoError)]

\* new Mapper(options).  options: whether any was passed (given), whether it
\* has a globalOptions key (nested), the entry options it carries at its top
\* level (flat), and its cache key.
Constructor(options) ==
    IF ~options.given
    THEN [globalOptions |-> NoOptions, cacheConfig |-> [enabled |-> "off"]]
    ELSE [globalOptions |->
              IF options.nested THEN options.globalOptions
              ELSE [options.flat EXCEPT !.cache =
                        IF options.cache.given THEN CacheAlias ELSE NoCache],
          cacheConfig |->
              IF options.cache.given THEN [enabled |-> options.cache.enabled]
              ELSE [enabled |-> "off"]]

CtorOptions(given, nested, g, flat, cache) ==
    [given |-> given, nested |-> nested, globalOptions |-> g, flat |-> flat,
     cache |-> cache]

\* The record of the last public call; given is the options argument of a
\* createMap call
NoOutcome ==
    Outcome(TRUE, NoError, None, None, FALSE, NoEntry, NoEntry, Free, Free, Free, Free)

\* The metadata of a MappingResult, without its executionTime
Metadata(mappedProperties, skippedProperties, errors) ==
    [mappedProperties |-> mappedProperties, skippedProperties |-> skippedProperties,
     errors |-> errors]

\* No MappingResult reached the caller
NoMetadata == Metadata(<<>>, <<>>, <<>>)

CallRec(op, v, dst, o, trace) ==
    [op |-> op, src |-> v, dst |-> dst, ok |-> o.ok, err |-> o.err, ret |-> o.ret,
     hit |-> o.hit, entry |-> o.entry, ran |-> o.ran, pre |-> o.pre,
     afterCopy |-> o.afterCopy, afterFns |-> o.afterFns, out |-> o.out,
     trace |-> trace, given |-> NoOptions, conditions |-> <<>>, invoked |-> <<>>,
     metadata |-> NoMetadata, name |-> <<>>]

\* The mapper state a map call reads and changes, as the call starts
Start == [cf |-> compiledMapFns, caf |-> compiledAsyncMapFns, ic |-> instanceCache,
          hp |-> heap, trace |-> <<>>]

\* Mapper.getMappings()
getMappings ==
    [i \in 1..Len(registry) |->
        [source |-> ClassName(registry[i].source),
         destination |-> ClassName(registry[i].destination)]]

\* createMap's three writes, on the registry, the index and the sync closures
\* held in m: push, set, and the eager compileMapFunction
Register(m, entry) ==
    LET key == getRegistryKey(entry.source, entry.destination)
    IN [registry |-> Append(m.registry, entry),
        reverseRegistry |-> [m.reverseRegistry EXCEPT ![key] = entry],
        compiledMapFns |-> [m.compiledMapFns EXCEPT ![key] = entry]]

\* The registry, the index and the sync closures after createMap pushed entry
Registered(entry) ==
    Register([registry |-> registry, reverseRegistry |-> reverseRegistry,
              compiledMapFns |-> compiledMapFns], entry)

\* Mapper.createMap(source, destination, config, options)
CreateMapBody(source, destination, config, options) ==
    LET entry == Entry(source, destination, config,
                       mergeOptions(globalOptions, options))
        new == Registered(entry)
    IN /\ registry' = new.registry
       /\ reverseRegistry' = new.reverseRegistry
       /\ compiledMapFns' = new.compiledMapFns
       /\ UNCHANGED <<compiledAsyncMapFns, instanceCache, heap, globalOptions,
                      cacheConfig, validationRules, validation, promises>>

\* Mapper.map / Mapper.mapAsync as one step, then unreachable objects go
\* A faulty map that, when the call fails, forgets the compiled closure of
\* the pair it looked up.  C30_CallsLeaveConfigurationAlone must not hold of
\* it.
MapBodyForgettingClosure(op, v, destinationClass, async) ==
    \E o \in {MapCall(Start, v, destinationClass, async)} :
        \E gc \in {Collect(o.st.hp, o.st.ic, Preloaded \cup ({o.ret} \cap Refs))} :
            /\ compiledMapFns' =
                   IF o.ok \/ o.entry = NoEntry THEN o.st.cf
                   ELSE [o.st.cf EXCEPT
                            ![getRegistryKey(o.entry.source, o.entry.destination)] = NoEntry]
            /\ compiledAsyncMapFns' = o.st.caf
            /\ instanceCache' = gc.ic
            /\ heap' = gc.hp
            /\ call' = CallRec(op, v, destinationClass, o, o.st.trace)
            /\ UNCHANGED <<registry, reverseRegistry, globalOptions, cacheConfig,
                           validationRules, validation, promises>>

MapBody(op, v, destinationClass, async) ==
    \E o \in {MapCall(Start, v, destinationClass, async)} :
        \E gc \in {Collect(o.st.hp, o.st.ic, Preloaded \cup ({o.ret} \cap Refs))} :
            /\ compiledMapFns' = o.st.cf
            /\ compiledAsyncMapFns' = o.st.caf
            /\ instanceCache' = gc.ic
            /\ heap' = gc.hp
            /\ call' = CallRec(op, v, destinationClass, o, o.st.trace)
            /\ UNCHANGED <<registry, reverseRegistry, globalOptions, cacheConfig,
                           validationRules, validation, promises>>

\* reverseConfig[k] = fn
SetConfig(cfg, k, fn) ==
    IF ConfigHas(cfg, k)
    THEN [i \in 1..Len(cfg) |-> IF cfg[i].key = k THEN [key |-> k, fn |-> fn] ELSE cfg[i]]
    ELSE Append(cfg, [key |-> k, fn |-> fn])

\* A faulty derivation that gives a reverse function only to the forward
\* functions built by Mapper.mapFrom.  C15_ReverseDerivationRule must not hold
\* of it.
RECURSIVE ReverseConfigOfMapFromOnly(_, _)
ReverseConfigOfMapFromOnly(cfg, acc) ==
    IF cfg = <<>> THEN acc
    ELSE ReverseConfigOfMapFromOnly(Tail(cfg),
             IF Head(cfg).fn.kind = "from"
             THEN SetConfig(acc, Head(cfg).fn.key, FnProp(Head(cfg).key))
             ELSE acc)

\* Mapper.createReverseMap: the reverse config derived from a forward config
RECURSIVE ReverseConfig(_, _)
ReverseConfig(cfg, acc) ==
    IF cfg = <<>> THEN acc
    ELSE LET destKey == Head(cfg).key
             sourcePath == IF Head(cfg).fn.kind = "from" THEN Head(cfg).fn.key ELSE <<>>
         IN ReverseConfig(Tail(cfg),
                SetConfig(acc, IF sourcePath # <<>> THEN sourcePath ELSE destKey,
                          FnProp(destKey)))

----------------------------------------------------------------------------
(* Bounds and the inputs the actions draw from *)

\* The longest registry list the model lets createMap build
MaxRegistry == 2

\* The source objects: r1 and r2 are two instances of A equal field for
\* field, r4 is an instance of the other class named A, r5 is nested in r3
SourceHeap ==
    [r \in Refs |->
        CASE r = "r1" -> Obj("A", <<nx, ny, nw, nu_n>>, <<"v1", NULL, UNDEF, "v2">>)
          [] r = "r2" -> Obj("A", <<nx, ny, nw, nu_n>>, <<"v1", NULL, UNDEF, "v2">>)
          [] r = "r3" -> Obj("A", <<nx, ny, nw, nz>>, <<UNDEF, "v1", "v2", "r5">>)
          [] r = "r4" -> Obj("A_dup", <<nx, nw>>, <<"v2", NULL>>)
          [] r = "r5" -> Obj("N", <<nx>>, <<"v1">>)
          [] r = "r6" -> Obj("A", <<nx, nx_>>, <<NULL, "v1">>)
          [] OTHER -> Free]

Cfg1(k, fn) == <<[key |-> k, fn |-> fn]>>

NoConstructorOptions == CtorOptions(FALSE, FALSE, NoOptions, NoOptions, NoCache)

----------------------------------------------------------------------------
(* The mapper as a state machine *)

InitWith(ctor, hp) ==
    /\ registry = <<>>
    /\ reverseRegistry = EmptyIndex
    /\ compiledMapFns = EmptyIndex
    /\ compiledAsyncMapFns = EmptyIndex
    /\ instanceCache = EmptyCache
    /\ heap = hp
    /\ globalOptions = Constructor(ctor).globalOptions
    /\ cacheConfig = Constructor(ctor).cacheConfig
    /\ validationRules = NoRules
    /\ promises = NoPromises
    /\ validation = NoValidation
    /\ call = CallRec("new", None, None, NoOutcome, <<>>)

\* Mapper.createMap, for the inputs a specification draws
CreateMapOf(pairs, configs, optionses, max) ==
    \E p \in pairs, config \in configs, options \in optionses :
        /\ Len(registry) < max
        /\ CreateMapBody(p[1], p[2], config, options)
        /\ call' = [CallRec("createMap", p[1], p[2],
                            [NoOutcome EXCEPT !.entry =
                                Entry(p[1], p[2], config,
                                      mergeOptions(globalOptions, options))],
                            <<>>) EXCEPT !.given = options]

\* Mapper.createReverseMap(source, destination)
CreateReverseMapOf(pairs, max) ==
    \E p \in pairs :
        LET forwardEntry == findEntry(p[1], p[2])
        IN IF forwardEntry = NoEntry
           THEN /\ call' = CallRec("createReverseMap", p[1], p[2],
                                   [NoOutcome EXCEPT !.ok = FALSE,
                                       !.err = RawError("No forward mapping found")],
                                   <<>>)
                /\ UNCHANGED <<registry, reverseRegistry, compiledMapFns,
                               compiledAsyncMapFns, instanceCache, heap,
                               globalOptions, cacheConfig, validationRules, validation,
                               promises>>
           ELSE /\ Len(registry) < max
                /\ CreateMapBody(p[2], p[1], ReverseConfig(forwardEntry.config, <<>>),
                                 forwardEntry.options)
                /\ call' = CallRec("createReverseMap", p[1], p[2],
                                   [NoOutcome EXCEPT !.entry =
                                       Entry(p[2], p[1],
                                             ReverseConfig(forwardEntry.config, <<>>),
                                             mergeOptions(globalOptions,
                                                          forwardEntry.options))],
                                   <<>>)

\* Mapper.setCacheEnabled(enabled)
SetCacheEnabled ==
    \E enabled \in {"on", "off"} :
        /\ cacheConfig' = [cacheConfig EXCEPT !.enabled = enabled]
        /\ call' = CallRec("setCacheEnabled", enabled, None, NoOutcome, <<>>)
        /\ UNCHANGED <<registry, reverseRegistry, compiledMapFns, compiledAsyncMapFns,
                       instanceCache, heap, globalOptions, validationRules, validation,
                       promises>>

\* A faulty clear that resets the registry and the caches only.
\* C21_ClearIsFullReset must not hold of it.
ClearRegistryAndCacheOnly ==
    /\ registry' = <<>>
    /\ reverseRegistry' = EmptyIndex
    /\ compiledMapFns' = EmptyIndex
    /\ compiledAsyncMapFns' = EmptyIndex
    /\ instanceCache' = EmptyCache
    /\ heap' = Collect(heap, EmptyCache, Preloaded).hp
    /\ call' = CallRec("clear", None, None, NoOutcome, <<>>)
    /\ UNCHANGED <<globalOptions, cacheConfig, validationRules, promises, validation>>

\* Mapper.clear()
Clear ==
    /\ registry' = <<>>
    /\ reverseRegistry' = EmptyIndex
    /\ compiledMapFns' = EmptyIndex
    /\ compiledAsyncMapFns' = EmptyIndex
    /\ instanceCache' = EmptyCache
    /\ heap' = Collect(heap, EmptyCache, Preloaded).hp
    /\ validationRules' = NoRules
    /\ call' = CallRec("clear", None, None, NoOutcome, <<>>)
    /\ UNCHANGED <<globalOptions, cacheConfig, promises, validation>>

----------------------------------------------------------------------------
(* Spec: registration and lookup.  Three class pairs share the registry    *)
(* key A->B: (A, B), (A_dup, B) and (A, B_dup).                            *)

MainPairs == {<<"A", "B">>, <<"A_dup", "B">>, <<"A", "B_dup">>}
MainConfigs == {Cfg1(nx, FnConst("p")), Cfg1(nx, FnConst("q"))}
MainSources == {"r1", "r4"}
MainDestinations == {"B", "B_dup"}

Init == InitWith(NoConstructorOptions, SourceHeap)

CreateMap == CreateMapOf(MainPairs, MainConfigs, {NoOptions}, MaxRegistry)

CreateReverseMap == CreateReverseMapOf({<<"A", "B">>}, MaxRegistry)

Map ==
    \E v \in MainSources, d \in MainDestinations : MapBody("map", v, d, FALSE)

MapAsync ==
    \E v \in MainSources, d \in MainDestinations : MapBody("mapAsync", v, d, TRUE)

Next == CreateMap \/ CreateReverseMap \/ Map \/ MapAsync \/ Clear

Spec == Init /\ [][Next]_vars

----------------------------------------------------------------------------
(* Properties of registration and lookup, checked under Spec *)

\* The class of the object a call was given
ClassOf(v) == heap[v].cls

\* The positions of the registry list that hold an entry of exactly this pair
PairEntries(source, destination) ==
    {i \in DOMAIN registry :
        registry[i].source = source /\ registry[i].destination = destination}

\* C1: map(s, D) and mapAsync(s, D) resolve the entry by type identity: when
\* no registered entry has exactly the pair (class of s, D), the call fails
\* with the mapping-not-found error and runs no field function and no hook of
\* any entry, also when a registered class has the same name as the class of
\* s or as D.
C1_LookupByTypeIdentity ==
    (/\ call.op \in {"map", "mapAsync"}
     /\ PairEntries(ClassOf(call.src), call.dst) = {})
    => /\ ~call.ok
       /\ call.err.what = "Mapping not found"
       /\ call.trace = <<>>

\* C5: re-registration replaces: the registry holds one entry per (source
\* type, destination type) pair, the one registered last, and getMappings()
\* lists every registered pair once.
C5_OneEntryPerPair ==
    /\ \A i, j \in DOMAIN registry :
          (/\ registry[i].source = registry[j].source
           /\ registry[i].destination = registry[j].destination) => i = j
    /\ Len(getMappings) =
          Cardinality({<<registry[i].source, registry[i].destination>> :
                          i \in DOMAIN registry})
    /\ (call.op \in {"createMap", "createReverseMap"} /\ call.ok)
       => \A i \in PairEntries(call.entry.source, call.entry.destination) :
             registry[i] = call.entry

\* C6: once createMap has replaced the entry of a pair, a later map or
\* mapAsync on that pair runs the field functions and hooks of the entry
\* registered last and of no replaced entry, also when the async closure had
\* been built before the replacement.  Stated for the calls whose pair shares
\* its name-built registry key with no entry of another pair, so that only
\* replacement decides which entry runs.
C6_ReplacedEntryNeverRuns ==
    LET mine == PairEntries(ClassOf(call.src), call.dst)
        latest == registry[CHOOSE i \in mine : \A j \in mine : j <= i]
        sameKey == {i \in DOMAIN registry :
                       getRegistryKey(registry[i].source, registry[i].destination)
                           = getRegistryKey(ClassOf(call.src), call.dst)}
    IN (/\ call.op \in {"map", "mapAsync"}
        /\ mine # {}
        /\ sameKey = mine)
       => /\ call.entry = latest
          /\ call.ran \in {NoEntry, latest}
          /\ \A i \in DOMAIN call.trace : call.trace[i].entry = latest

\* C13: createReverseMap(S, D) called when no entry for exactly (S, D) is
\* registered fails with the configuration error and leaves the registry,
\* the keyed index, both closure caches and the instance cache as they
\* were; when the forward entry exists it appends an entry for (D, S),
\* indexes it, and leaves every entry registered before, and what the index
\* holds for (S, D), as it was.
C13_ReverseNeedsExactForward ==
    [][call'.op = "createReverseMap"
       => IF PairEntries(call'.src, call'.dst) = {}
          THEN /\ ~call'.ok
               /\ call'.err.what = "No forward mapping found"
               /\ UNCHANGED <<registry, reverseRegistry, compiledMapFns,
                              compiledAsyncMapFns, instanceCache>>
          ELSE /\ call'.ok
               /\ Len(registry') = Len(registry) + 1
               /\ registry'[Len(registry')].source = call'.dst
               /\ registry'[Len(registry')].destination = call'.src
               /\ \A i \in DOMAIN registry : registry'[i] = registry[i]
               /\ reverseRegistry'[getRegistryKey(call'.dst, call'.src)]
                     = registry'[Len(registry')]
               /\ reverseRegistry'[getRegistryKey(call'.src, call'.dst)]
                     = reverseRegistry[getRegistryKey(call'.src, call'.dst)]]_vars

\* C24: in every reachable state every pair in the registry list is in the
\* keyed index, which gives the entry registered last for that pair (so the
\* linear scan never resolves an entry); the sync closure kept for the pair
\* is the one compiled for that entry, and an async closure kept for the
\* pair was built by a mapAsync of that pair, from an entry of that pair.
C24_IndexConsistent ==
    \A i \in DOMAIN registry :
        \E e \in {registry[i]} :
          \E key \in {getRegistryKey(e.source, e.destination)},
             mine \in {PairEntries(e.source, e.destination)} :
            \E latest \in {registry[CHOOSE j \in mine : \A l \in mine : l <= j]} :
              /\ reverseRegistry[key] = latest
              /\ findEntry(e.source, e.destination) = latest
              /\ compiledMapFns[key] = latest
              /\ compiledAsyncMapFns[key] # NoEntry
                 => /\ compiledAsyncMapFns[key].source = e.source
                    /\ compiledAsyncMapFns[key].destination = e.destination

----------------------------------------------------------------------------
(* SpecCache: the instance cache.  Two pairs (A, B) and (A, C), two source *)
(* objects r1 and r2 that are equal field for field, the global flag and a *)
(* per-entry cache option.                                                 *)

CachePairs == {<<"A", "B">>, <<"A", "C">>}
CacheConfigs == {Cfg1(nx, FnConst("p"))}
CacheOptions == {NoOptions, [NoOptions EXCEPT !.cache = Cache("on")]}
CacheCalls == {<<"r1", "B">>, <<"r2", "B">>, <<"r1", "C">>}

CacheInit == InitWith(NoConstructorOptions, SourceHeap)

CacheCreateMap == CreateMapOf(CachePairs, CacheConfigs, CacheOptions, MaxRegistry)

CacheMap == \E c \in CacheCalls : MapBody("map", c[1], c[2], FALSE)

CacheNext == CacheCreateMap \/ CacheMap \/ SetCacheEnabled \/ Clear

SpecCache == CacheInit /\ [][CacheNext]_vars

\* The field functions of the entry a call found all appear in what it ran
RanFieldFunctions(c) ==
    \A i \in DOMAIN c.entry.config :
        \E j \in DOMAIN c.trace :
            /\ c.trace[j].ev = "fn"
            /\ c.trace[j].key = c.entry.config[i].key

\* C3: with caching active for the entry, map(a, B) on a source identity
\* and destination type that already have a cached result returns that same
\* reference and runs no field function and no hook; a call whose (source
\* identity, destination type) has no cached result, such as one on an
\* object equal to a field for field or one on a with another destination
\* type, returns a reference no earlier call returned, runs the field
\* functions, and leaves its result as the one cached for its own source
\* identity and destination type; a cached result stays as it is until clear.
C3_CacheKeyedByIdentity ==
    [][/\ (/\ call'.op = "map"
           /\ call'.ok
           /\ isCacheEnabled(call'.entry))
          => IF instanceCache[call'.src][call'.dst] # None
             THEN /\ call'.ret = instanceCache[call'.src][call'.dst]
                  /\ call'.hit
                  /\ call'.trace = <<>>
             ELSE /\ \A r \in Refs, c \in Classes : instanceCache[r][c] # call'.ret
                  /\ ~call'.hit
                  /\ RanFieldFunctions(call')
                  /\ instanceCache'[call'.src][call'.dst] = call'.ret
       /\ call'.op # "clear"
          => \A r \in Refs, c \in Classes :
                instanceCache[r][c] # None
                => instanceCache'[r][c] = instanceCache[r][c]]_vars

\* A second map(r1, B) was served from the cache while r2, equal to r1 field
\* for field, and the other destination type have results of their own
C3_Witness ==
    /\ call.op = "map"
    /\ call.src = "r1"
    /\ call.dst = "B"
    /\ call.hit
    /\ call.ret = instanceCache["r1"]["B"]
    /\ heap["r1"] = heap["r2"]
    /\ instanceCache["r2"]["B"] \in Refs \ {call.ret}
    /\ instanceCache["r1"]["C"] \in Refs \ {call.ret}

----------------------------------------------------------------------------
(* SpecCacheFlag: which calls use the instance cache.  The mapper is built *)
(* from each shape of constructor options; the pair (A, B) is registered   *)
(* with no cache option of its own, the pair (A, C) with one.              *)

\* new Mapper(), new Mapper({globalOptions: {}, cache: {enabled: true}}),
\* new Mapper({globalOptions: {}}), new Mapper({cache: {enabled: true}}),
\* new Mapper({cache: {enabled: false}}), and what AutomapperModule.forRoot
\* passes for {globalOptions: {skipNulls: true}}: {skipNulls: true,
\* cache: undefined}
FlagConstructors ==
    {NoConstructorOptions,
     CtorOptions(TRUE, TRUE, NoOptions, NoOptions, Cache("on")),
     CtorOptions(TRUE, TRUE, NoOptions, NoOptions, NoCache),
     CtorOptions(TRUE, FALSE, NoOptions, NoOptions, Cache("on")),
     CtorOptions(TRUE, FALSE, NoOptions, NoOptions, Cache("off")),
     CtorOptions(TRUE, FALSE, NoOptions, [NoOptions EXCEPT !.skipNulls = "on"], NoCache)}

FlagInit == \E ctor \in FlagConstructors : InitWith(ctor, SourceHeap)

\* createMap(A, B, config): no options
CreateMapPlain ==
    CreateMapOf({<<"A", "B">>}, CacheConfigs, {NoOptions}, MaxRegistry)

\* createMap(A, C, config, {cache: {enabled}})
CreateMapWithCacheOption ==
    CreateMapOf({<<"A", "C">>}, CacheConfigs,
                {[NoOptions EXCEPT !.cache = Cache(e)] : e \in {"on", "off"}},
                MaxRegistry)

FlagMap == \E d \in {"B", "C"} : MapBody("map", "r1", d, FALSE)

FlagMapAsync == \E d \in {"B", "C"} : MapBody("mapAsync", "r1", d, TRUE)

FlagNext ==
    \/ CreateMapPlain
    \/ CreateMapWithCacheOption
    \/ FlagMap
    \/ FlagMapAsync
    \/ SetCacheEnabled

SpecCacheFlag == FlagInit /\ [][FlagNext]_vars

\* C4: caching is active for an entry exactly when the cache.enabled value
\* of its own createMap options says so and otherwise when the mapper's
\* global flag is on.  A map or mapAsync that returns was served from the
\* instance cache only if caching is active for its entry, and its result is
\* the one the instance cache holds afterwards exactly if caching is active;
\* for the pair (A, B), registered with no cache option, active means the
\* flag last set by setCacheEnabled (or by the constructor); after
\* setCacheEnabled(b), isGlobalCacheEnabled() is b.  For every shape of
\* constructor options.
C4_CacheActiveIffEntryOrFlag ==
    LET active == IF call.dst = "C"
                  THEN Truthy(call.entry.options.cache.enabled)
                  ELSE isGlobalCacheEnabled
    IN /\ (call.op \in {"map", "mapAsync"} /\ call.ok)
          => /\ call.hit => active
             /\ (instanceCache[call.src][call.dst] = call.ret) <=> active
       /\ call.op = "setCacheEnabled"
          => (isGlobalCacheEnabled <=> call.src = "on")

----------------------------------------------------------------------------
(* SpecEntry: one entry's closure.  The mapper holds an entry for (N, M)   *)
(* and one entry for (A, B) or (A, C) drawn with its field functions and   *)
(* options; r1 is drawn among six source objects of class A.               *)

\* The objects r1 may be.  x is a string, null, undefined or the object r5;
\* w is a string or undefined; z, where present, is the object r5; the last
\* has a field whose snake_case name ends in its separator.
PlainSource == Obj("A", <<nx, ny, nw, nu_n>>, <<"v1", "v3", "v2", "v2">>)
NestingSource == Obj("A", <<nx, ny, nw, nu_n, nz>>, <<UNDEF, "v3", "v2", "v2", "r5">>)

EntrySources ==
    {PlainSource,
     NestingSource,
     Obj("A", <<nx, ny, nw, nu_n>>, <<NULL, "v3", UNDEF, "v2">>),
     Obj("A", <<nx, ny, nw, nu_n, nz>>, <<"r5", NULL, UNDEF, "v2", "r5">>),
     Obj("A", <<nx, ny, nw, nu_n, nz>>, <<NULL, "v3", UNDEF, UNDEF, "r5">>),
     Obj("A", <<nx, ny, nw, nx_>>, <<"v1", "v3", UNDEF, "v1">>)}

Input(config, options) == [config |-> config, options |-> options]

\* Entries that vary what the default copy reads
CopyFilters ==
    {<<NoList, NoList>>,
     <<List(<<nx>>), NoList>>,
     <<NoList, List(<<nx, nw>>)>>,
     <<List(<<nw>>), List(<<nx, ny, nw>>)>>}

CopyInputs ==
    {Input(config,
           [NoOptions EXCEPT !.skipNulls = sn, !.skipUndefined = su,
                             !.deepClone = dc, !.ignore = f[1], !.include = f[2],
                             !.convertNaming = cn]) :
        config \in {<<>>, Cfg1(nx, FnConst("p"))},
        sn \in {"unset", "on"}, su \in {"unset", "on"}, dc \in {"unset", "on"},
        f \in CopyFilters,
        cn \in {NoNaming, Naming("snake_case", "camelCase")}}

\* Entries that vary the field functions and what becomes of their results
FnConfigs ==
    {Cfg1(nx, FnConst("p")),
     Cfg1(nx, FnConst(NULL)),
     Cfg1(nx, FnConst(UNDEF)),
     <<[key |-> nx, fn |-> FnThrow], [key |-> nw, fn |-> FnConst("q")]>>,
     <<[key |-> nw, fn |-> FnThrow], [key |-> ny, fn |-> FnProp(nx)]>>,
     <<[key |-> ny, fn |-> FnConst("p")], [key |-> nx, fn |-> FnThrow],
       [key |-> nw, fn |-> FnConst(NULL)]>>}

FnInputs ==
    {Input(config,
           [NoOptions EXCEPT !.skipNulls = sn, !.skipUndefined = su, !.strict = st]) :
        config \in FnConfigs,
        sn \in {"unset", "on"}, su \in {"unset", "on"}, st \in {"unset", "on", "off"}}

\* Entries that vary the hooks
HookInputs ==
    {Input(config,
           [NoOptions EXCEPT !.beforeMap = b, !.afterMap = a, !.strict = st,
                             !.deepCloneBeforeMap = dc]) :
        config \in {Cfg1(nx, FnConst("p")), Cfg1(nx, FnThrow)},
        b \in {"unset", "id", "throw", "setx"}, a \in {"unset", "throw", "setx"},
        st \in {"unset", "on"}, dc \in {"unset", "on"}}

\* The cases: what r1 is, the destination class, and the entry's config and
\* options
EntryCases ==
    (EntrySources \X {"B"} \X CopyInputs)
        \cup (EntrySources \X {"B", "C"} \X FnInputs)
        \cup ({PlainSource, NestingSource} \X {"B"} \X HookInputs)

\* The state after new Mapper(), createMap(N, M) and createMap(A, d, config,
\* options)
EntryInit ==
    \E case \in EntryCases :
      \E s \in {case[1]}, d \in {case[2]}, in \in {case[3]} :
        \E m \in {Register(
                    Register([registry |-> <<>>, reverseRegistry |-> EmptyIndex,
                              compiledMapFns |-> EmptyIndex],
                             Entry("N", "M", <<>>, NoOptions)),
                    Entry("A", d, in.config, mergeOptions(NoOptions, in.options)))} :
            /\ globalOptions = Constructor(NoConstructorOptions).globalOptions
            /\ cacheConfig = Constructor(NoConstructorOptions).cacheConfig
            /\ registry = m.registry
            /\ reverseRegistry = m.reverseRegistry
            /\ compiledMapFns = m.compiledMapFns
            /\ compiledAsyncMapFns = EmptyIndex
            /\ instanceCache = EmptyCache
            /\ heap = [SourceHeap EXCEPT !["r1"] = s]
            /\ validationRules = NoRules
            /\ promises = NoPromises
            /\ validation = NoValidation
            /\ call = CallRec("createMap", "A", d, NoOutcome, <<>>)

\* map(r1, d) and mapAsync(r1, d) for the destination class d of the entry
EntryMap == MapBody("map", "r1", registry[2].destination, FALSE)

EntryMapAsync == MapBody("mapAsync", "r1", registry[2].destination, TRUE)

EntryNext == EntryMap \/ EntryMapAsync

SpecEntry == EntryInit /\ [][EntryNext]_vars

----------------------------------------------------------------------------
(* Properties of one call's closure, checked under SpecEntry.  call.ran is *)
(* the entry whose closure the call ran and call.pre the closure's         *)
(* argument.                                                               *)

IsMapCall == call.op \in {"map", "mapAsync"}

\* What the i-th field function of the entry does on the closure's argument
FnResult(i) == ApplyFn(call.ran.config[i].fn, call.pre)

FnKey(i) == call.ran.config[i].key

\* skipNulls / skipUndefined keep the value a field function returned from
\* being assigned
Suppressed(val) ==
    \/ Truthy(call.ran.options.skipNulls) /\ val = NULL
    \/ Truthy(call.ran.options.skipUndefined) /\ val = UNDEF

\* k is default-copyable: the source has a field k and so has the destination
DefaultCopyable(k) ==
    Has(call.pre, k) /\ Has(DefaultInstance(call.ran.destination), k)

\* C2: an exception raised by the beforeMap hook, by the compiled closure or
\* by the afterMap hook reaches the caller of map and of mapAsync only as a
\* MappingError that carries the source type name, the destination type name
\* and the original cause.
C2_FailuresReachCallerWrapped ==
    (IsMapCall /\ ~call.ok /\ call.entry # NoEntry)
    => /\ call.err.wrapped
       /\ call.err.sourceType = ClassName(ClassOf(call.src))
       /\ call.err.destinationType = ClassName(call.dst)
       /\ call.err.originalError # None

\* C7 as stated: a destination field that is default-copyable and has an
\* explicit field function holds, in the destination the closure returns,
\* the value the function returned.
C7_ExplicitFunctionWins ==
    (IsMapCall /\ call.out # Free)
    => \A i \in DOMAIN call.ran.config :
          (DefaultCopyable(FnKey(i)) /\ FnResult(i).ok)
          => Get(call.out, FnKey(i)) = FnResult(i).val

\* C7: a destination field that is default-copyable and has an explicit
\* field function holds, in the destination the closure returns, the value
\* the function returned, unless that value is null under skipNulls or
\* undefined under skipUndefined; then it holds what the default copy left.
C7_ExplicitFunctionWinsUnlessSuppressed ==
    (IsMapCall /\ call.out # Free)
    => \A i \in DOMAIN call.ran.config :
          (DefaultCopyable(FnKey(i)) /\ FnResult(i).ok)
          => IF Suppressed(FnResult(i).val)
             THEN Get(call.out, FnKey(i)) = Get(call.afterCopy, FnKey(i))
             ELSE Get(call.out, FnKey(i)) = FnResult(i).val

\* The default copy wrote the source's x and the field function's other
\* value replaced it
C7_Witness ==
    /\ IsMapCall
    /\ call.ok
    /\ \E i \in DOMAIN call.ran.config :
          /\ FnKey(i) = nx
          /\ DefaultCopyable(nx)
          /\ FnResult(i).ok
          /\ ~Suppressed(FnResult(i).val)
          /\ Get(call.afterCopy, nx) = Get(call.pre, nx)
          /\ Get(call.pre, nx) = "v1"
          /\ Get(call.out, nx) = "p"

\* The destination key the default copy gives the source key k
TargetKey(k) ==
    IF call.ran.options.convertNaming.given
    THEN convertNamingConvention(k, call.ran.options.convertNaming.from,
                                 call.ran.options.convertNaming.to)
    ELSE k

\* The reference: the source fields the default copy assigns to the
\* destination key t
CopiedTo(t) ==
    LET o == call.ran.options
    IN {k \in DOMAIN call.pre.f :
          /\ ~Includes(o.ignore.list, k)
          /\ o.include.given => Includes(o.include.list, k)
          /\ ~(Truthy(o.skipNulls) /\ call.pre.f[k] = NULL)
          /\ ~(Truthy(o.skipUndefined) /\ call.pre.f[k] = UNDEF)
          /\ TargetKey(k) = t}

\* d is what assigning the source value v leaves in a field: v, or under
\* deepClone a copy of the object v refers to
AssignedFrom(d, v) ==
    IF Truthy(call.ran.options.deepClone) /\ v \in Refs
    THEN d \in Refs \ {v}
    ELSE d = v

\* C8: after the default-copy step the destination has the fields of the
\* default-constructed destination and no other; a destination field t holds
\* the value of a source field k that is not in ignore, is in include when
\* include is present, is not null under skipNulls and not undefined under
\* skipUndefined, and whose target key (k, converted when convertNaming is
\* set) is t; a field with no such source field holds its default-constructed
\* value.
C8_DefaultCopyIsReference ==
    (IsMapCall /\ call.afterCopy # Free)
    => LET default == DefaultInstance(call.ran.destination)
       IN /\ DOMAIN call.afterCopy.f = DOMAIN default.f
          /\ \A t \in DOMAIN default.f :
                IF CopiedTo(t) = {}
                THEN call.afterCopy.f[t] = default.f[t]
                ELSE \E k \in CopiedTo(t) :
                        AssignedFrom(call.afterCopy.f[t], call.pre.f[k])

\* Under skipNulls a null source x left x at its default, y was copied, and
\* the snake_case u_n landed in uN
C8_Witness ==
    /\ IsMapCall
    /\ call.ok
    /\ Truthy(call.ran.options.skipNulls)
    /\ call.ran.options.convertNaming.given
    /\ Get(call.pre, nx) = NULL
    /\ Get(call.afterCopy, nx) = "dflt"
    /\ Get(call.afterCopy, ny) = "v3"
    /\ Get(call.pre, nu_n) = "v2"
    /\ Get(call.afterCopy, nuN) = "v2"

\* The i-th field function was invoked
Invoked(i) ==
    \E j \in DOMAIN call.trace :
        /\ call.trace[j].ev = "fn"
        /\ call.trace[j].entry = call.ran
        /\ call.trace[j].key = FnKey(i)

\* What made a call fail: the error a MappingError wraps, or the error itself
ErrorCause(err) ==
    IF err.wrapped /\ err.originalError # None THEN err.originalError ELSE err.what

\* C9: when a field function raises and strict is not set, the field keeps
\* what the default copy produced for it, every field function is still
\* invoked and the values of the others are assigned, and the call succeeds
\* (it can still fail later, in the afterMap hook or for a nested value with
\* no mapping); when strict is set, the call fails and returns no
\* destination.
C9_FieldFunctionFailurePolicy ==
    (/\ IsMapCall
     /\ call.afterCopy # Free
     /\ \E i \in DOMAIN call.ran.config : ~FnResult(i).ok)
    => IF Truthy(call.ran.options.strict)
       THEN /\ ~call.ok
            /\ call.ret = None
            /\ call.out = Free
       ELSE /\ call.afterFns # Free
            /\ \A i \in DOMAIN call.ran.config :
                  /\ Invoked(i)
                  /\ ~FnResult(i).ok
                     => /\ Has(call.afterFns, FnKey(i)) <=> Has(call.afterCopy, FnKey(i))
                        /\ Get(call.afterFns, FnKey(i)) = Get(call.afterCopy, FnKey(i))
                  /\ (FnResult(i).ok /\ ~Suppressed(FnResult(i).val))
                     => Get(call.afterFns, FnKey(i)) = FnResult(i).val
            /\ \/ call.ok /\ call.ret \in Refs
               \/ ~call.ok /\ ErrorCause(call.err) \in {"afterMap", "Mapping not found"}

\* The function for x raised without strict: x kept the copied source value
\* and the later function for w was applied
C9_Witness ==
    /\ IsMapCall
    /\ call.ok
    /\ ~Truthy(call.ran.options.strict)
    /\ Len(call.ran.config) = 2
    /\ FnKey(1) = nx
    /\ ~FnResult(1).ok
    /\ Get(call.afterCopy, nx) = "v1"
    /\ Get(heap[call.ret], nx) = "v1"
    /\ FnKey(2) = nw
    /\ Get(heap[call.ret], nw) = "q"

\* The fields the annotation-driven step wrote
AutoWritten ==
    {call.trace[j].key : j \in {i \in DOMAIN call.trace :
                                   /\ call.trace[i].ev = "auto"
                                   /\ call.trace[i].entry = call.ran}}

\* C10: the annotation-driven step writes a destination field only if the
\* field has no explicit field function in the entry's table and is unset
\* after the default copy and the field functions; a field those steps left
\* defined, and a field with an explicit function (also one that raised or
\* whose result was suppressed), is the same before and after the step.
C10_AnnotationStepOnlyFillsUnset ==
    (IsMapCall /\ call.out # Free)
    => /\ \A k \in AutoWritten :
             /\ ~ConfigHas(call.ran.config, k)
             /\ Get(call.afterFns, k) = UNDEF
       /\ \A k \in DOMAIN call.out.f \cup DOMAIN call.afterFns.f :
             (ConfigHas(call.ran.config, k) \/ Get(call.afterFns, k) # UNDEF)
             => /\ Has(call.out, k) <=> Has(call.afterFns, k)
                /\ Get(call.out, k) = Get(call.afterFns, k)

\* The function for w raised and left w unset; the step filled z and left w
\* alone, though w is annotated and the source has a field w
C10_Witness ==
    /\ IsMapCall
    /\ call.ok
    /\ nw \in {AutoMeta(call.ran.destination)[i] :
                  i \in DOMAIN AutoMeta(call.ran.destination)}
    /\ Has(call.pre, nw)
    /\ \E i \in DOMAIN call.ran.config : FnKey(i) = nw /\ ~FnResult(i).ok
    /\ Get(call.afterFns, nw) = UNDEF
    /\ Get(call.out, nw) = UNDEF
    /\ nz \in AutoWritten
    /\ Get(call.out, nz) \in Refs

----------------------------------------------------------------------------
(* SpecAnnotated: the annotation-driven step.  The mapper holds an entry   *)
(* for (N, M) and one for (A, d), d one of the annotated classes, with no  *)
(* options; r1 is drawn among the six source objects.                      *)

AnnotatedDestinations == {"B", "C", "D", "U", "V"}
AnnotatedConfigs == {<<>>, Cfg1(nx, FnConst("p")), Cfg1(nw, FnThrow)}

\* The state after new Mapper(), createMap(N, M) and createMap(A, d, config)
AnnotatedInit ==
    \E s \in EntrySources, d \in AnnotatedDestinations, config \in AnnotatedConfigs :
        \E m \in {Register(
                    Register([registry |-> <<>>, reverseRegistry |-> EmptyIndex,
                              compiledMapFns |-> EmptyIndex],
                             Entry("N", "M", <<>>, NoOptions)),
                    Entry("A", d, config, mergeOptions(NoOptions, NoOptions)))} :
            /\ globalOptions = Constructor(NoConstructorOptions).globalOptions
            /\ cacheConfig = Constructor(NoConstructorOptions).cacheConfig
            /\ registry = m.registry
            /\ reverseRegistry = m.reverseRegistry
            /\ compiledMapFns = m.compiledMapFns
            /\ compiledAsyncMapFns = EmptyIndex
            /\ instanceCache = EmptyCache
            /\ heap = [SourceHeap EXCEPT !["r1"] = s]
            /\ validationRules = NoRules
            /\ promises = NoPromises
            /\ validation = NoValidation
            /\ call = CallRec("createMap", "A", d, NoOutcome, <<>>)

AnnotatedMap == MapBody("map", "r1", registry[2].destination, FALSE)

AnnotatedMapAsync == MapBody("mapAsync", "r1", registry[2].destination, TRUE)

AnnotatedNext == AnnotatedMap \/ AnnotatedMapAsync

SpecAnnotated == AnnotatedInit /\ [][AnnotatedNext]_vars

\* C11: for a destination field the annotation step writes, a nested-type
\* factory takes priority over a source-path override, which takes priority
\* over the same-named copy: a field with a nested-type factory holds the
\* mapping of the source's same-named value to the nested type (the value
\* itself when it is null or undefined), also when the field carries a
\* source path; otherwise a field with a source path holds the value at the
\* path; otherwise it holds the source's same-named value.
C11_NestedFactoryBeforeSourcePath ==
    (IsMapCall /\ call.ok)
    => \A k \in AutoWritten :
          LET nested == NestedType(call.dst, k)
              path == SourcePath(call.dst, k)
              t == Transformer(call.dst, k)
              v == Get(call.pre, k)
              d == Get(call.out, k)
          IN IF nested # None
             THEN IF v \in {UNDEF, NULL} THEN d = v
                  ELSE d \in Refs /\ heap[d].cls = nested
             ELSE IF path # <<>>
             THEN d = ApplyTransformer(t, WalkPath(heap, call.pre, path))
             ELSE d = ApplyTransformer(t, v)

\* C12: for a destination class whose fields are marked with the AutoMap
\* decorator, the fields the compiled closure obtains for the class contain
\* every marked field, and after createMap with no field functions a map
\* call leaves every marked field that the earlier steps left unset, and
\* that the source has, with the source's value.
C12_MarkedFieldsAreAutoMapped ==
    (IsMapCall /\ call.ok /\ AutoMapFields(call.dst) # <<>> /\ call.ran.config = <<>>)
    => \A i \in DOMAIN AutoMapFields(call.dst) :
          LET k == AutoMapFields(call.dst)[i]
          IN /\ \E j \in DOMAIN AutoMeta(call.dst) : AutoMeta(call.dst)[j] = k
             /\ (Has(call.pre, k) /\ Get(call.afterFns, k) = UNDEF)
                => Get(call.out, k) = Get(call.pre, k)

----------------------------------------------------------------------------
(* SpecReverse: reverse-map derivation.  One forward entry (A, B) with     *)
(* field functions built by Mapper.mapFrom, by the exported mapFrom helper *)
(* or written by hand; then createReverseMap(A, B) and round trips.        *)

ReverseConfigs ==
    {Cfg1(ny, mapFrom(nx)),
     Cfg1(ny, mapFromHelper(nx)),
     Cfg1(nuN, mapFrom(nu_n)),
     Cfg1(nuN, mapFromHelper(nu_n)),
     Cfg1(nx, FnConst("p")),
     <<[key |-> nx, fn |-> mapFrom(ny)], [key |-> ny, fn |-> mapFrom(nx)]>>,
     <<[key |-> nw, fn |-> mapFrom(nx)], [key |-> ny, fn |-> FnConst("q")]>>,
     <<[key |-> ny, fn |-> FnConst("q")], [key |-> nx, fn |-> mapFrom(ny)]>>}

ReverseOptions ==
    {NoOptions,
     [NoOptions EXCEPT !.skipNulls = "on", !.ignore = List(<<nw>>)],
     [NoOptions EXCEPT !.beforeMap = "id", !.deepCloneBeforeMap = "on"]}

ReverseSources == {"r1", "r3", "r6"}

ReverseInit == InitWith(NoConstructorOptions, SourceHeap)

\* createMap(A, B, config, options), once
ReverseCreateMap == CreateMapOf({<<"A", "B">>}, ReverseConfigs, ReverseOptions, 1)

ReverseCreateReverseMap == CreateReverseMapOf({<<"A", "B">>}, MaxRegistry)

\* map(map(s, B), A): the forward map, then the map of its result back
ReverseRoundTrip ==
    \E v \in ReverseSources :
      \E fwd \in {MapCall(Start, v, "B", FALSE)} :
        \E o \in {IF fwd.ok
                   THEN MapCall([fwd.st EXCEPT !.trace = <<>>], fwd.ret, "A", FALSE)
                   ELSE fwd} :
          \E gc \in {Collect(o.st.hp, o.st.ic, Preloaded \cup ({o.ret} \cap Refs))} :
            /\ compiledMapFns' = o.st.cf
            /\ compiledAsyncMapFns' = o.st.caf
            /\ instanceCache' = gc.ic
            /\ heap' = gc.hp
            /\ call' = CallRec("roundTrip", v, "A", o, o.st.trace)
            /\ UNCHANGED <<registry, reverseRegistry, globalOptions, cacheConfig,
                           validationRules, validation, promises>>

ReverseNext == ReverseCreateMap \/ ReverseCreateReverseMap \/ ReverseRoundTrip \/ Clear

SpecReverse == ReverseInit /\ [][ReverseNext]_vars

\* A field function built by one of the two named-field-copy helpers
IsNamedCopy(fn) == fn.kind \in {"from", "path"}

\* C14: for a forward entry (A, B) whose field functions are all
\* named-field copies, after createReverseMap(A, B), map(map(s, B), A) has,
\* for every source field a forward function copies, the value s has.
C14_ReverseRoundTrip ==
    (/\ call.op = "roundTrip"
     /\ call.ok
     /\ Len(registry) = 2
     /\ \A i \in DOMAIN registry[1].config : IsNamedCopy(registry[1].config[i].fn))
    => \A i \in DOMAIN registry[1].config :
          Get(heap[call.ret], registry[1].config[i].fn.key)
              = Get(heap[call.src], registry[1].config[i].fn.key)

\* The forward entry and the reverse entry a successful createReverseMap
\* derived from it
Derived == call.op = "createReverseMap" /\ call.ok /\ Len(registry) = 2

\* The forward function at position i carries __sourcePath
HasSourcePath(i) == registry[1].config[i].fn.kind = "from"

\* The reverse entry has the function d => d[from] for the field k
ReverseReads(k, from) ==
    \E j \in DOMAIN call.entry.config :
        /\ call.entry.config[j].key = k
        /\ call.entry.config[j].fn = FnProp(from)

\* The reverse entry holds nothing of the forward entry but its options and
\* functions that read a field the forward table writes
CarriesOnlyOptions ==
    /\ call.entry.source = registry[1].destination
    /\ call.entry.destination = registry[1].source
    /\ call.entry.options = registry[1].options
    /\ \A j \in DOMAIN call.entry.config :
          \E i \in DOMAIN registry[1].config :
              call.entry.config[j].fn = FnProp(registry[1].config[i].key)

\* C15 as stated: every forward field function (destKey, fn) that carries no
\* source path has, in the derived reverse entry, a function for destKey that
\* returns the forward destination's destKey value; the reverse entry carries
\* nothing else of the forward entry but its options.
C15_EveryOtherFunctionCopiesThrough ==
    Derived
    => /\ \A i \in DOMAIN registry[1].config :
             ~HasSourcePath(i)
             => ReverseReads(registry[1].config[i].key, registry[1].config[i].key)
       /\ CarriesOnlyOptions

\* C15: every forward field function (destKey, fn) that carries no source
\* path has, in the derived reverse entry, a function for destKey that
\* returns the forward destination's destKey value, unless a function later
\* in the forward table was built by Mapper.mapFrom for the source field
\* destKey: then the reverse function for destKey reads that later
\* function's destination field.  The reverse entry carries nothing else of
\* the forward entry but its options.
C15_ReverseDerivationRule ==
    Derived
    => /\ \A i \in DOMAIN registry[1].config :
             ~HasSourcePath(i)
             => LET k == registry[1].config[i].key
                    later == {j \in DOMAIN registry[1].config :
                                 /\ j > i
                                 /\ HasSourcePath(j)
                                 /\ registry[1].config[j].fn.key = k}
                IN IF later = {} THEN ReverseReads(k, k)
                   ELSE ReverseReads(k, registry[1].config[
                            CHOOSE j \in later : \A l \in later : l <= j].key)
       /\ CarriesOnlyOptions

\* createReverseMap derived a copy-through function for y from a forward
\* function that returns a constant, next to the function for x that reads
\* w, and the reverse entry carries the forward hook
C15_Witness ==
    /\ Derived
    /\ Len(registry[1].config) = 2
    /\ registry[1].config[2].fn = FnConst("q")
    /\ ReverseReads(ny, ny)
    /\ ReverseReads(nx, nw)
    /\ call.entry.options.beforeMap = "id"
    /\ registry[2] = call.entry

----------------------------------------------------------------------------
(* SpecMerge: option merging at createMap.  The mapper is built with       *)
(* global defaults of each constructor shape; createMap is called with     *)
(* options that override, extend or leave alone what the defaults set.     *)

MergeGlobals ==
    [NoOptions EXCEPT !.skipNulls = "on", !.strict = "on", !.afterMap = "setx",
                      !.ignore = List(<<nx, ny>>),
                      !.convertNaming = Naming("snake_case", "camelCase")]

\* new Mapper(), new Mapper({globalOptions: {...}, cache: {enabled: true}}),
\* new Mapper({globalOptions: {..., cache: {enabled: false}}}) and the flat
\* new Mapper({ignore: ['w'], include: ['x'], cache: {enabled: false}})
MergeConstructors ==
    {NoConstructorOptions,
     CtorOptions(TRUE, TRUE, MergeGlobals, NoOptions, Cache("on")),
     CtorOptions(TRUE, TRUE, [MergeGlobals EXCEPT !.cache = Cache("off")], NoOptions,
                 NoCache),
     CtorOptions(TRUE, FALSE, NoOptions,
                 [NoOptions EXCEPT !.ignore = List(<<nw>>), !.include = List(<<nx>>)],
                 Cache("off"))}

MergeOptions ==
    {NoOptions,
     [NoOptions EXCEPT !.skipNulls = "off", !.ignore = List(<<ny, nz>>)],
     [NoOptions EXCEPT !.include = List(<<nx, nw, nx>>), !.cache = Cache("on"),
                       !.convertNaming = Naming("camelCase", "snake_case")],
     [NoOptions EXCEPT !.afterMap = "id", !.deepClone = "on", !.ignore = List(<<>>)],
     [NoOptions EXCEPT !.cache = Cache("unset"), !.strict = "off"]}

MergeInit == \E ctor \in MergeConstructors : InitWith(ctor, SourceHeap)

MergeCreateMap ==
    CreateMapOf({<<"A", "B">>, <<"A", "C">>}, {<<>>}, MergeOptions, MaxRegistry)

MergeNext == MergeCreateMap \/ SetCacheEnabled \/ Clear

SpecMerge == MergeInit /\ [][MergeNext]_vars

\* The elements of a list
Elements(list) == {list[i] : i \in DOMAIN list}

\* merged is the duplicate-free union of the lists g and o: present when
\* either is, holding every element of either once and nothing else
UnionOf(merged, g, o) ==
    /\ merged.given <=> (g.given \/ o.given)
    /\ Elements(merged.list) = Elements(g.list) \cup Elements(o.list)
    /\ \A i, j \in DOMAIN merged.list : merged.list[i] = merged.list[j] => i = j

\* The enabled flag a cache option object holds (the flat constructor shape
\* makes the global one the mapper's own cacheConfig object)
EnabledOf(c) == IF c.alias THEN cacheConfig.enabled ELSE c.enabled

\* C16: the options of the entry createMap registers are the global defaults
\* overridden key by key by the call's options, except that ignore and
\* include are the duplicate-free union of the global and the call's lists
\* and cache is the shallow merge of the global and the call's cache objects,
\* the call's keys winning; createMap leaves the global defaults as they
\* were.
C16_OptionsMergedOverGlobals ==
    [][call'.op = "createMap"
       => LET e == call'.entry.options
              g == globalOptions
              o == call'.given
          IN /\ \A k \in {"skipNulls", "skipUndefined", "deepClone", "strict",
                            "deepCloneBeforeMap", "beforeMap", "afterMap"} :
                    e[k] = IF o[k] # "unset" THEN o[k] ELSE g[k]
             /\ e.convertNaming = IF o.convertNaming.given THEN o.convertNaming
                                  ELSE g.convertNaming
             /\ UnionOf(e.ignore, g.ignore, o.ignore)
             /\ UnionOf(e.include, g.include, o.include)
             /\ e.cache.given <=> (g.cache.given \/ o.cache.given)
             /\ e.cache.enabled = IF EnabledOf(o.cache) # "unset" THEN EnabledOf(o.cache)
                                  ELSE EnabledOf(g.cache)
             /\ globalOptions' = globalOptions
             /\ registry'[Len(registry')].options = e]_vars

\* createMap overrode the global skipNulls, kept the global strict, united
\* the two ignore lists, which share y, and registered the merged options
C16_Witness ==
    /\ call.op = "createMap"
    /\ globalOptions.skipNulls = "on"
    /\ globalOptions.ignore.list = <<nx, ny>>
    /\ call.given.skipNulls = "off"
    /\ call.given.ignore.list = <<ny, nz>>
    /\ call.entry.options.skipNulls = "off"
    /\ call.entry.options.strict = "on"
    /\ call.entry.options.ignore.list = <<nx, ny, nz>>
    /\ registry[Len(registry)].options = call.entry.options

----------------------------------------------------------------------------
(* SpecSync: map and mapAsync side by side.  The mapper holds an entry for *)
(* (N, M) and one for (A, d) with synchronous hooks and field functions;   *)
(* caching is off.                                                         *)

SyncInputs ==
    {Input(config,
           [NoOptions EXCEPT !.beforeMap = b, !.afterMap = a, !.strict = st,
                             !.deepCloneBeforeMap = dc]) :
        config \in {<<>>, Cfg1(nx, FnConst("p")), Cfg1(ny, FnThrow)},
        b \in {"unset", "id", "setx", "mutx"}, a \in {"unset", "setx"},
        st \in {"unset", "on"}, dc \in {"unset", "on"}}

\* The state after new Mapper(), createMap(N, M) and createMap(A, d, config,
\* options), r1 being the object s
InitWithEntry(s, d, config, options) ==
    \E m \in {Register(
                Register([registry |-> <<>>, reverseRegistry |-> EmptyIndex,
                          compiledMapFns |-> EmptyIndex],
                         Entry("N", "M", <<>>, NoOptions)),
                Entry("A", d, config, mergeOptions(NoOptions, options)))} :
        /\ globalOptions = Constructor(NoConstructorOptions).globalOptions
        /\ cacheConfig = Constructor(NoConstructorOptions).cacheConfig
        /\ registry = m.registry
        /\ reverseRegistry = m.reverseRegistry
        /\ compiledMapFns = m.compiledMapFns
        /\ compiledAsyncMapFns = EmptyIndex
        /\ instanceCache = EmptyCache
        /\ heap = [SourceHeap EXCEPT !["r1"] = s]
        /\ validationRules = NoRules
        /\ promises = NoPromises
        /\ validation = NoValidation
        /\ call = CallRec("createMap", "A", d, NoOutcome, <<>>)

SyncInit ==
    \E s \in {PlainSource, NestingSource}, d \in {"B", "V"}, in \in SyncInputs :
        InitWithEntry(s, d, in.config, in.options)

SyncMap == MapBody("map", "r1", registry[2].destination, FALSE)

SyncMapAsync == MapBody("mapAsync", "r1", registry[2].destination, TRUE)

SyncNext == SyncMap \/ SyncMapAsync

SpecSync == SyncInit /\ [][SyncNext]_vars

\* The values v1 of the heap hp1 and v2 of the heap hp2 are structurally
\* equal: the same primitive, or objects of one class with the same fields
\* holding structurally equal values
RECURSIVE StructurallyEqual(_, _, _, _)
StructurallyEqual(hp1, v1, hp2, v2) ==
    IF v1 \in Refs /\ v2 \in Refs
    THEN /\ hp1[v1].cls = hp2[v2].cls
         /\ DOMAIN hp1[v1].f = DOMAIN hp2[v2].f
         /\ \A k \in DOMAIN hp1[v1].f :
               StructurallyEqual(hp1, hp1[v1].f[k], hp2, hp2[v2].f[k])
    ELSE v1 = v2

\* C17: with caching disabled and synchronous hooks and field functions,
\* mapAsync(s, D) succeeds exactly when map(s, D) succeeds, the two
\* destinations are then structurally equal, and the two calls leave the
\* source objects in the same state.
C17_SyncAsyncEquivalent ==
    \E m \in {MapCall(Start, "r1", registry[2].destination, FALSE)},
       a \in {MapCall(Start, "r1", registry[2].destination, TRUE)} :
        /\ m.ok <=> a.ok
        /\ m.ok => StructurallyEqual(m.st.hp, m.ret, a.st.hp, a.ret)
        /\ \A r \in Preloaded : m.st.hp[r] = a.st.hp[r]

----------------------------------------------------------------------------
(* SpecArray: mapArrayAsync.  The mapper holds an entry for (A, B) and     *)
(* none for (N, M): an element of class N is rejected as its mapAsync      *)
(* starts, an element whose z is an N is rejected when its nested mapping  *)
(* runs, the others are fulfilled.  Element promises settle in any order.  *)

\* mapAsync(v, destinationClass) up to its first suspension: the lookup and
\* the cache check.  The promise it returns is already rejected (no entry),
\* already fulfilled (cached result) or pending.
StartElement(v, destinationClass) ==
    LET sourceObj == SourceOf(heap, v)
        entry == findEntry(sourceObj.cls, destinationClass)
    IN IF entry = NoEntry
       THEN Task("rejected", NoEntry, None,
                 createMappingError(ClassName(sourceObj.cls),
                                    ClassName(destinationClass),
                                    "Mapping not found", NoError))
       ELSE IF /\ isCacheEnabled(entry)
               /\ CacheLookup(instanceCache, v, destinationClass) # None
       THEN Task("fulfilled", entry, CacheLookup(instanceCache, v, destinationClass),
                 NoError)
       ELSE Task("pending", entry, None, NoError)

\* A faulty Promise.all that collects the values in the order the elements
\* settled.  C18_ArrayResultsByPosition must not hold of it.
PromiseAllInSettlingOrder(tasks, settled) ==
    LET rejections == {j \in DOMAIN settled : tasks[settled[j]].st = "rejected"}
        first == CHOOSE j \in rejections : \A l \in rejections : j <= l
    IN IF rejections # {}
       THEN Settlement("rejected", settled[first], <<>>, tasks[settled[first]].err)
       ELSE IF \A i \in DOMAIN tasks : tasks[i].st = "fulfilled"
       THEN Settlement("fulfilled", 0, [j \in DOMAIN settled |-> tasks[settled[j]].val],
                       NoError)
       ELSE Settlement("pending", 0, <<>>, NoError)

\* Promise.all(tasks), the elements having settled in the order settled:
\* rejected with the first rejection, else fulfilled with the values by
\* position once every element is fulfilled
PromiseAll(tasks, settled) ==
    LET rejections == {j \in DOMAIN settled : tasks[settled[j]].st = "rejected"}
        first == CHOOSE j \in rejections : \A l \in rejections : j <= l
    IN IF rejections # {}
       THEN Settlement("rejected", settled[first], <<>>, tasks[settled[first]].err)
       ELSE IF \A i \in DOMAIN tasks : tasks[i].st = "fulfilled"
       THEN Settlement("fulfilled", 0, [i \in DOMAIN tasks |-> tasks[i].val], NoError)
       ELSE Settlement("pending", 0, <<>>, NoError)

\* The positions of tasks that are settled on return, in index order
RECURSIVE SettledAtStart(_, _)
SettledAtStart(tasks, i) ==
    IF i > Len(tasks) THEN <<>>
    ELSE (IF tasks[i].st # "pending" THEN <<i>> ELSE <<>>)
            \o SettledAtStart(tasks, i + 1)

\* The results the element promises hold
TaskResults(tasks) == {tasks[i].val : i \in DOMAIN tasks} \cap Refs

ArrayInputs ==
    {<<>>, <<"r1">>, <<"r1", "r6">>, <<"r6", "r1", "r4">>, <<"r1", "r1">>,
     <<"r1", "r3", "r6">>, <<"r3", "r4", "r3">>, <<"r5", "r1">>, <<"r1", "r5", "r3">>}

ArrayOptions == {NoOptions, [NoOptions EXCEPT !.cache = Cache("on")]}

\* The state after new Mapper() and createMap(A, B, {}, options)
ArrayInit ==
    \E options \in ArrayOptions :
        \E m \in {Register([registry |-> <<>>, reverseRegistry |-> EmptyIndex,
                            compiledMapFns |-> EmptyIndex],
                           Entry("A", "B", <<>>, mergeOptions(NoOptions, options)))} :
            /\ globalOptions = Constructor(NoConstructorOptions).globalOptions
            /\ cacheConfig = Constructor(NoConstructorOptions).cacheConfig
            /\ registry = m.registry
            /\ reverseRegistry = m.reverseRegistry
            /\ compiledMapFns = m.compiledMapFns
            /\ compiledAsyncMapFns = EmptyIndex
            /\ instanceCache = EmptyCache
            /\ heap = SourceHeap
            /\ validationRules = NoRules
            /\ promises = NoPromises
            /\ validation = NoValidation
            /\ call = CallRec("createMap", "A", "B", NoOutcome, <<>>)

\* Mapper.mapArrayAsync(items, B): sourceArray.map starts mapAsync for every
\* element, then Promise.all takes the promises.  Called once the elements
\* of the call before have settled.
MapArrayAsync ==
    \E items \in ArrayInputs :
      \E tasks \in {[i \in DOMAIN items |-> StartElement(items[i], "B")]} :
        \E gc \in {Collect(heap, instanceCache, Preloaded \cup TaskResults(tasks))} :
          /\ \A i \in DOMAIN promises.tasks : promises.tasks[i].st # "pending"
          /\ promises' = [items |-> items, dst |-> "B", tasks |-> tasks,
                          settled |-> SettledAtStart(tasks, 1),
                          all |-> PromiseAll(tasks, SettledAtStart(tasks, 1))]
          /\ heap' = gc.hp
          /\ instanceCache' = gc.ic
          /\ call' = CallRec("mapArrayAsync", None, "B", NoOutcome, <<>>)
          /\ UNCHANGED <<registry, reverseRegistry, compiledMapFns,
                         compiledAsyncMapFns, globalOptions, cacheConfig,
                         validationRules, validation>>

\* A pending element's mapAsync runs to its end: hooks, closure, cache
\* write; its promise settles and Promise.all reacts
SettleElement ==
    \E i \in DOMAIN promises.tasks :
      /\ promises.tasks[i].st = "pending"
      /\ \E o \in {MapMiss(Start, promises.items[i], promises.dst, TRUE,
                             SourceOf(heap, promises.items[i]),
                             promises.tasks[i].entry)} :
          \E tasks \in {[promises.tasks EXCEPT ![i] =
                            IF o.ok THEN Task("fulfilled", @.entry, o.ret, NoError)
                            ELSE Task("rejected", @.entry, None, o.err)]},
             settled \in {Append(promises.settled, i)} :
            \E gc \in {Collect(o.st.hp, o.st.ic, Preloaded \cup TaskResults(tasks))} :
              /\ promises' = [promises EXCEPT !.tasks = tasks, !.settled = settled,
                                              !.all = PromiseAll(tasks, settled)]
              /\ compiledMapFns' = o.st.cf
              /\ compiledAsyncMapFns' = o.st.caf
              /\ instanceCache' = gc.ic
              /\ heap' = gc.hp
              /\ UNCHANGED <<registry, reverseRegistry, globalOptions, cacheConfig,
                             validationRules, validation, call>>

ArrayNext == MapArrayAsync \/ SettleElement

SpecArray == ArrayInit /\ [][ArrayNext]_vars

\* The position in settled of the element i
SettledAt(i) == CHOOSE j \in DOMAIN promises.settled : promises.settled[j] = i

\* C18: mapArrayAsync starts mapAsync for every element (every element has
\* its promise as the call returns, whatever became of the elements before
\* it); while no element is rejected the call is pending until every element
\* is fulfilled and is then fulfilled with, at every position i, the mapping
\* of items[i], whatever the order the elements settled in; once an element
\* is rejected the call is rejected with the rejection that occurred first,
\* also while other elements are still pending, and settling those changes
\* nothing of it.
C18_ArrayResultsByPosition ==
    promises.all.st # None
    => LET t == promises.tasks
           rejected == {i \in DOMAIN t : t[i].st = "rejected"}
       IN /\ DOMAIN t = DOMAIN promises.items
          /\ \A i \in DOMAIN t :
                /\ t[i].st = "pending" <=> ~\E j \in DOMAIN promises.settled :
                                               promises.settled[j] = i
                /\ t[i].st = "fulfilled"
                   => /\ heap[t[i].val].cls = promises.dst
                      /\ Get(heap[t[i].val], nx) = Get(heap[promises.items[i]], nx)
          /\ IF rejected # {}
             THEN /\ promises.all.st = "rejected"
                  /\ promises.all.from \in rejected
                  /\ \A i \in rejected : SettledAt(promises.all.from) <= SettledAt(i)
                  /\ promises.all.err = t[promises.all.from].err
                  /\ promises.all.val = <<>>
             ELSE IF \E i \in DOMAIN t : t[i].st = "pending"
             THEN promises.all.st = "pending"
             ELSE /\ promises.all.st = "fulfilled"
                  /\ DOMAIN promises.all.val = DOMAIN promises.items
                  /\ \A i \in DOMAIN t : promises.all.val[i] = t[i].val

\* Three elements settled in the order 3, 1, 2 and the call was fulfilled
\* with their mappings by position
C18_Witness ==
    /\ promises.items = <<"r6", "r1", "r4">>
    /\ promises.settled = <<3, 1, 2>>
    /\ promises.all.st = "fulfilled"
    /\ Get(heap[promises.all.val[1]], nx) = NULL
    /\ Get(heap[promises.all.val[2]], nx) = "v1"
    /\ Get(heap[promises.all.val[3]], nx) = "v2"

\* C26: with caching active for the entry, the mapAsync calls that one
\* mapArrayAsync call makes for the same source object resolve, however
\* they interleave, to one result reference, the one the instance cache
\* holds for that source (so the closure and its field functions ran for
\* that source once: every run of the closure builds a new destination).
C26_OneResultPerSourceUnderInterleaving ==
    \A i, j \in DOMAIN promises.tasks :
        (/\ promises.items[i] = promises.items[j]
         /\ promises.tasks[i].st = "fulfilled"
         /\ promises.tasks[j].st = "fulfilled"
         /\ isCacheEnabled(promises.tasks[i].entry))
        => /\ promises.tasks[i].val = promises.tasks[j].val
           /\ promises.tasks[i].val
                = CacheLookup(instanceCache, promises.items[i], promises.dst)

----------------------------------------------------------------------------
(* SpecConditional: mapConditional and map on a mapper that holds an entry *)
(* for (A, B), with and without the entry's cache option.                  *)

\* A ConditionalMapping pair
Conditional(c, m) == [condition |-> c, map |-> m]

\* condition(sourceObj) of the predicates the model passes
Holds(c, sourceObj) ==
    CASE c = "always" -> TRUE
      [] c = "never" -> FALSE
      [] c = "hasX" -> Get(sourceObj, nx) \notin {NULL, UNDEF}

\* map(sourceObj) of the functions the model passes: the partial object
\* returned, as its fields in enumeration order
Partial(m, sourceObj) ==
    CASE m = "setX" -> <<[key |-> nx, val |-> "o1"]>>
      [] m = "setXY" -> <<[key |-> nx, val |-> "o2"], [key |-> ny, val |-> "o2"]>>
      [] m = "copyW" -> <<[key |-> nw, val |-> Get(sourceObj, nu_n)]>>

\* Object.assign(target, partial)
RECURSIVE ObjectAssign(_, _, _)
ObjectAssign(target, partial, i) ==
    IF i > Len(partial) THEN target
    ELSE ObjectAssign(Put(target, partial[i].key, partial[i].val), partial, i + 1)

\* The loop of mapConditional from pair i on: destObj at its end and the
\* pairs whose map function ran
RECURSIVE ApplyConditions(_, _, _, _, _)
ApplyConditions(destObj, sourceObj, conditions, i, invoked) ==
    IF i > Len(conditions) THEN [obj |-> destObj, invoked |-> invoked]
    ELSE IF Holds(conditions[i].condition, sourceObj)
    THEN ApplyConditions(ObjectAssign(destObj, Partial(conditions[i].map, sourceObj), 1),
                         sourceObj, conditions, i + 1, Append(invoked, i))
    ELSE ApplyConditions(destObj, sourceObj, conditions, i + 1, invoked)

\* Mapper.mapConditional(v, destinationClass, conditions): destObj is what
\* this.map returns, the cached instance when the cache is active
MapConditionalBody(v, destinationClass, conditions) ==
    \E o \in {MapCall(Start, v, destinationClass, FALSE)} :
      \E r \in {IF o.ok
                 THEN ApplyConditions(o.st.hp[o.ret], SourceOf(o.st.hp, v), conditions,
                                      1, <<>>)
                 ELSE [obj |-> Free, invoked |-> <<>>]} :
        \E hp \in {IF o.ok THEN [o.st.hp EXCEPT ![o.ret] = r.obj] ELSE o.st.hp} :
          \E gc \in {Collect(hp, o.st.ic, Preloaded \cup ({o.ret} \cap Refs))} :
            /\ compiledMapFns' = o.st.cf
            /\ compiledAsyncMapFns' = o.st.caf
            /\ instanceCache' = gc.ic
            /\ heap' = gc.hp
            /\ call' = [CallRec("mapConditional", v, destinationClass, o, o.st.trace)
                           EXCEPT !.conditions = conditions, !.invoked = r.invoked]
            /\ UNCHANGED <<registry, reverseRegistry, globalOptions, cacheConfig,
                           validationRules, validation, promises>>

ConditionalInputs ==
    {<<>>,
     <<Conditional("always", "setX")>>,
     <<Conditional("never", "setXY")>>,
     <<Conditional("hasX", "copyW")>>,
     <<Conditional("always", "setX"), Conditional("always", "setXY")>>,
     <<Conditional("always", "setXY"), Conditional("hasX", "setX")>>,
     <<Conditional("never", "setX"), Conditional("always", "copyW")>>}

ConditionalSources == {"r1", "r6", "r5"}

ConditionalInit ==
    \E options \in ArrayOptions : InitWithEntry(SourceHeap["r1"], "B", <<>>, options)

ConditionalMapConditional ==
    \E v \in ConditionalSources, conditions \in ConditionalInputs :
        MapConditionalBody(v, "B", conditions)

ConditionalMap == \E v \in ConditionalSources : MapBody("map", v, "B", FALSE)

ConditionalNext == ConditionalMapConditional \/ ConditionalMap

SpecConditional == ConditionalInit /\ [][ConditionalNext]_vars

\* The pairs of conditions whose condition holds of sourceObj, in array order
RECURSIVE Applied(_, _, _)
Applied(conditions, sourceObj, i) ==
    IF i > Len(conditions) THEN <<>>
    ELSE (IF Holds(conditions[i].condition, sourceObj) THEN <<i>> ELSE <<>>)
            \o Applied(conditions, sourceObj, i + 1)

\* The pairs among applied that set the field k
Setting(conditions, sourceObj, applied, k) ==
    {j \in DOMAIN applied :
        \E f \in DOMAIN Partial(conditions[applied[j]].map, sourceObj) :
            Partial(conditions[applied[j]].map, sourceObj)[f].key = k}

\* The value the last of the pairs in setting gives the field k
LastValue(conditions, sourceObj, applied, setting, k) ==
    LET last == CHOOSE j \in setting : \A l \in setting : l <= j
        partial == Partial(conditions[applied[last]].map, sourceObj)
    IN partial[CHOOSE f \in DOMAIN partial : partial[f].key = k].val

\* C19: a mapConditional call that returns, returns the default mapping of
\* its source by the registered entry with the partial objects of the pairs
\* whose condition holds merged onto it in array order: a field set by
\* applied pairs has the value of the last of them, every other field the
\* value the default mapping gives it, and only the map functions of the
\* pairs whose condition holds ran.
C19_OverlaysOnDefaultMap ==
    (call.op = "mapConditional" /\ call.ok)
    => \E sourceObj \in {heap[call.src]},
          fresh \in {MapMiss(Start, call.src, call.dst, FALSE, heap[call.src],
                             call.entry)} :
         \E applied \in {Applied(call.conditions, sourceObj, 1)} :
           /\ call.invoked = applied
           /\ fresh.ok
           /\ \A k \in PropertyNames :
                \E setting \in {Setting(call.conditions, sourceObj, applied, k)} :
                  Get(heap[call.ret], k)
                    = IF setting # {}
                      THEN LastValue(call.conditions, sourceObj, applied, setting, k)
                      ELSE Get(fresh.st.hp[fresh.ret], k)

\* C28: whatever mapConditional calls were made before, a map call returns
\* a destination equal, field for field, to the default mapping of its
\* source, and a mapConditional call returns no field value that only the
\* overlay of another call could have set.
C28_OverlaysStayOutOfMap ==
    /\ (call.op = "map" /\ call.ok)
       => \E fresh \in {MapMiss(Start, call.src, call.dst, FALSE, heap[call.src],
                                 call.entry)} :
            /\ fresh.ok
            /\ StructurallyEqual(heap, call.ret, fresh.st.hp, fresh.ret)
    /\ (call.op = "mapConditional" /\ call.ok)
       => \E applied \in {Applied(call.conditions, heap[call.src], 1)} :
            \A k \in PropertyNames :
                Get(heap[call.ret], k) \in {"o1", "o2"}
                => Setting(call.conditions, heap[call.src], applied, k) # {}

----------------------------------------------------------------------------
(* SpecValidate: addValidation, validate and clear.  validate suspends at  *)
(* every rule; the model takes validate calls one at a time and registers  *)
(* or clears rules between them.                                           *)

\* The most rules the model registers
MaxRules == 3

\* rule.validate(val) of the predicates the model registers
Passes(validate, val) ==
    CASE validate = "fail" -> FALSE
      [] validate = "notNull" -> val \notin {NULL, UNDEF}

ValidationInputs == {Rule("fail", "m2"), Rule("notNull", "m3")}

ValidatedClasses == {"A", "A_dup"}

ValidatedProperties == {nx, ny}

ValidatedObjects == {"r1", "r4", "r6"}

\* `${className}.${key}`
RuleKey(className, key) == <<className, key>>

\* The number of rules registered
RECURSIVE CountRules(_, _)
CountRules(rules, ks) ==
    IF ks = {} THEN 0
    ELSE LET k == CHOOSE x \in ks : TRUE
         IN Len(rules[k]) + CountRules(rules, ks \ {k})

\* Mapper.addValidation(targetClass, property, rule), while fewer than most
\* rules are registered
AddValidationOf(classes, properties, rules, most) ==
    \E targetClass \in classes, property \in properties, rule \in rules :
        /\ validation.st # "pending"
        /\ CountRules(validationRules, DOMAIN validationRules) < most
        /\ validationRules' =
              [validationRules EXCEPT ![RuleKey(ClassName(targetClass), property)] =
                                          Append(@, rule)]
        /\ call' = CallRec("addValidation", None, targetClass, NoOutcome, <<>>)
        /\ UNCHANGED <<registry, reverseRegistry, compiledMapFns, compiledAsyncMapFns,
                       instanceCache, heap, globalOptions, cacheConfig, promises,
                       validation>>

AddValidation ==
    AddValidationOf(ValidatedClasses, ValidatedProperties, ValidationInputs, MaxRules)

\* The loops of validate up to the next rule: from the position of vn on,
\* the first field of obj, in enumeration order, that has a rule left; the
\* call returns true when there is none
RECURSIVE Seek(_, _, _)
Seek(vn, rules, obj) ==
    IF vn.field > Len(obj.keys) THEN [vn EXCEPT !.st = "true"]
    ELSE IF vn.rule <= Len(rules[RuleKey(ClassName(obj.cls), obj.keys[vn.field])])
    THEN vn
    ELSE Seek([vn EXCEPT !.field = @ + 1, !.rule = 1], rules, obj)

\* A faulty turn that goes on after a false predicate.
\* C20_ValidateFailsFastInOrder must not hold of it.
CheckRuleWithoutThrow(vn, rules, obj) ==
    Seek([vn EXCEPT !.evaluated = Append(@, [field |-> vn.field, rule |-> vn.rule]),
                    !.rule = @ + 1], rules, obj)

\* One turn of the inner loop of validate: the predicate of the rule at the
\* position of vn is called with obj[key] and awaited; the call throws if
\* it is false and goes to the next rule if not
CheckRule(vn, rules, obj) ==
    LET key == obj.keys[vn.field]
        rule == rules[RuleKey(ClassName(obj.cls), key)][vn.rule]
        evaluated == Append(vn.evaluated, [field |-> vn.field, rule |-> vn.rule])
    IN IF ~Passes(rule.validate, Get(obj, key))
       THEN [vn EXCEPT !.st = "failed", !.evaluated = evaluated,
                       !.err = [field |-> key, message |-> rule.message]]
       ELSE Seek([vn EXCEPT !.evaluated = evaluated, !.rule = @ + 1], rules, obj)

\* Mapper.validate(v) up to its first rule
Validate ==
    \E v \in ValidatedObjects :
        /\ validation.st # "pending"
        /\ validation' = Seek([NoValidation EXCEPT !.obj = v, !.st = "pending"],
                              validationRules, heap[v])
        /\ call' = CallRec("validate", v, None, NoOutcome, <<>>)
        /\ UNCHANGED <<registry, reverseRegistry, compiledMapFns, compiledAsyncMapFns,
                       instanceCache, heap, globalOptions, cacheConfig,
                       validationRules, promises>>

\* The validate call in flight resumes for one rule
ValidateRule ==
    /\ validation.st = "pending"
    /\ validation' = CheckRule(validation, validationRules, heap[validation.obj])
    /\ UNCHANGED <<registry, reverseRegistry, compiledMapFns, compiledAsyncMapFns,
                   instanceCache, heap, globalOptions, cacheConfig, validationRules,
                   promises, call>>

ValidateClear == validation.st # "pending" /\ Clear

ValidateNext == AddValidation \/ Validate \/ ValidateRule \/ ValidateClear

ValidateInit == InitWith(NoConstructorOptions, SourceHeap)

SpecValidate == ValidateInit /\ [][ValidateNext]_vars

\* The rules registered for the fields of obj from field f on: their
\* positions, field by field in enumeration order and, within a field, in
\* the order they were added
RECURSIVE RulesInOrder(_, _)
RulesInOrder(obj, f) ==
    IF f > Len(obj.keys) THEN <<>>
    ELSE [r \in 1..Len(validationRules[RuleKey(ClassName(obj.cls), obj.keys[f])])
            |-> [field |-> f, rule |-> r]]
         \o RulesInOrder(obj, f + 1)

\* The predicate of the rule at position p holds of obj
RulePasses(obj, p) ==
    Passes(validationRules[RuleKey(ClassName(obj.cls), obj.keys[p.field])][p.rule].validate,
           Get(obj, obj.keys[p.field]))

\* C20: the predicates a validate call has evaluated are the first ones of
\* the rules registered as "TypeName.fieldName" for the fields of its
\* object, taken field by field in enumeration order and within a field in
\* the order they were added; every one of them but the last holds; the
\* call has failed exactly if the last one is false, and the error then
\* names the field and the message of that rule; it has returned true
\* exactly if all the rules were evaluated and hold.
C20_ValidateFailsFastInOrder ==
    (call.op = "validate")
    => \E obj \in {heap[validation.obj]} :
         \E all \in {RulesInOrder(obj, 1)}, n \in {Len(validation.evaluated)} :
           /\ n <= Len(all)
           /\ \A i \in 1..n : validation.evaluated[i] = all[i]
           /\ \A i \in 1..(n - 1) : RulePasses(obj, all[i])
           /\ validation.st \in {"pending", "true", "failed"}
           /\ validation.st = "failed"
              <=> (n > 0 /\ ~RulePasses(obj, all[n]))
           /\ validation.st = "failed"
              => /\ validation.err.field = obj.keys[all[n].field]
                 /\ validation.err.message
                      = validationRules[RuleKey(ClassName(obj.cls),
                                                validation.err.field)][all[n].rule].message
           /\ validation.st = "true"
              <=> (n = Len(all) /\ \A i \in 1..n : RulePasses(obj, all[i]))
           /\ validation.st = "true"
              <=> (\A i \in 1..Len(all) : RulePasses(obj, all[i]))
                    /\ validation.st # "pending"

\* validate(r1) with a rule added for A.y before two rules for A.x: the
\* rule of x that holds was evaluated, then the second rule of x failed,
\* and the rule of y was not evaluated
C20_Witness ==
    /\ call.op = "validate"
    /\ validation.obj = "r1"
    /\ validationRules[RuleKey("A", ny)] = <<Rule("notNull", "m3")>>
    /\ validationRules[RuleKey("A", nx)] = <<Rule("notNull", "m3"), Rule("fail", "m2")>>
    /\ validation.st = "failed"
    /\ validation.evaluated = <<[field |-> 1, rule |-> 1], [field |-> 1, rule |-> 2]>>
    /\ validation.err = [field |-> nx, message |-> "m2"]

----------------------------------------------------------------------------
(* SpecClear: clear on a mapper that holds an entry, cached results and a  *)
(* validation rule.  The mapper is built with and without the global cache *)
(* flag; calls are made one at a time.                                     *)

ClearConstructors ==
    {NoConstructorOptions,
     CtorOptions(TRUE, TRUE, [NoOptions EXCEPT !.skipNulls = "on"], NoOptions,
                 Cache("on"))}

ClearInit == \E ctor \in ClearConstructors : InitWith(ctor, SourceHeap)

ClearCreateMap ==
    /\ validation.st # "pending"
    /\ CreateMapOf({<<"A", "B">>}, {Cfg1(nx, FnConst("p"))},
                   {NoOptions, [NoOptions EXCEPT !.cache = Cache("on")]}, MaxRegistry)

ClearMap ==
    /\ validation.st # "pending"
    /\ \E async \in BOOLEAN :
          MapBody(IF async THEN "mapAsync" ELSE "map", "r1", "B", async)

ClearAddValidation == AddValidationOf({"A"}, {nx}, {Rule("notNull", "m3")}, 1)

ClearNext ==
    \/ ClearCreateMap
    \/ ClearMap
    \/ ClearAddValidation
    \/ Validate
    \/ ValidateRule
    \/ ValidateClear

SpecClear == ClearInit /\ [][ClearNext]_vars

\* C21: a clear() step leaves getMappings() empty, every map and mapAsync
\* failing with mapping-not-found, no cached result for any source and
\* destination, and validate passing for every instance, and it leaves the
\* global cache flag and the global default options as they were.
C21_ClearIsFullReset ==
    [][call'.op = "clear"
        => /\ getMappings' = <<>>
           /\ \A v \in Preloaded, d \in Classes, async \in BOOLEAN :
                 /\ (~MapCall(Start, v, d, async).ok)'
                 /\ (MapCall(Start, v, d, async).err.what)' = "Mapping not found"
                 /\ (CacheLookup(instanceCache, v, d))' = None
           /\ \A v \in Preloaded :
                 (Seek([NoValidation EXCEPT !.obj = v, !.st = "pending"],
                       validationRules, heap[v]).st)' = "true"
           /\ compiledMapFns' = EmptyIndex
           /\ compiledAsyncMapFns' = EmptyIndex
           /\ cacheConfig' = cacheConfig
           /\ globalOptions' = globalOptions]_vars

\* clear() was called on a mapper built with the global cache flag on, after
\* a validate call had failed on a registered rule
C21_Witness ==
    /\ call.op = "clear"
    /\ validation.st = "failed"
    /\ validationRules = NoRules
    /\ registry = <<>>
    /\ cacheConfig.enabled = "on"
    /\ globalOptions.skipNulls = "on"

----------------------------------------------------------------------------
(* SpecMetadata: mapWithMetadata and map on a mapper that holds an entry   *)
(* for (A, B) whose field function may throw, and none for (N, B).         *)

\* The keys of sourceObj from position i on for which present(key) is keep
RECURSIVE KeysWhere(_, _, _, _)
KeysWhere(sourceObj, destObj, keep, i) ==
    IF i > Len(sourceObj.keys) THEN <<>>
    ELSE (IF Has(destObj, sourceObj.keys[i]) = keep THEN <<sourceObj.keys[i]>>
          ELSE <<>>) \o KeysWhere(sourceObj, destObj, keep, i + 1)

\* Mapper.mapWithMetadata(v, destinationClass).  When this.map throws, the
\* catch block pushes {property: 'all', error: message} onto the local
\* errors array and throws the same error: the array is part of no value
\* the caller receives, so the caller is left with the error alone.
MapWithMetadataBody(v, destinationClass) ==
    \E o \in {MapCall(Start, v, destinationClass, FALSE)} :
      \E gc \in {Collect(o.st.hp, o.st.ic, Preloaded \cup ({o.ret} \cap Refs))} :
        \E errors \in {IF o.ok THEN <<>>
                        ELSE <<[property |-> "all", error |-> o.err.what]>>} :
          /\ compiledMapFns' = o.st.cf
          /\ compiledAsyncMapFns' = o.st.caf
          /\ instanceCache' = gc.ic
          /\ heap' = gc.hp
          /\ call' = [CallRec("mapWithMetadata", v, destinationClass, o, o.st.trace)
                         EXCEPT !.metadata =
                            IF o.ok
                            THEN Metadata(KeysWhere(o.st.hp[v], o.st.hp[o.ret], TRUE, 1),
                                          KeysWhere(o.st.hp[v], o.st.hp[o.ret], FALSE, 1),
                                          errors)
                            ELSE NoMetadata]
          /\ UNCHANGED <<registry, reverseRegistry, globalOptions, cacheConfig,
                         validationRules, validation, promises>>

MetadataInputs ==
    [config : {<<>>, Cfg1(ny, FnThrow)},
     options : {[NoOptions EXCEPT !.strict = st, !.cache = c] :
                    st \in {"unset", "on"}, c \in {NoCache, Cache("on")}}]

MetadataSources == {"r1", "r3", "r5", "r6"}

MetadataInit ==
    \E in \in MetadataInputs : InitWithEntry(SourceHeap["r1"], "B", in.config, in.options)

MetadataMapWithMetadata == \E v \in MetadataSources : MapWithMetadataBody(v, "B")

MetadataMap == \E v \in MetadataSources : MapBody("map", v, "B", FALSE)

MetadataNext == MetadataMapWithMetadata \/ MetadataMap

SpecMetadata == MetadataInit /\ [][MetadataNext]_vars

\* The elements of a sequence
Range(seq) == {seq[i] : i \in DOMAIN seq}

\* C22: a mapWithMetadata call that succeeds returns as data what map
\* returns for the same arguments, and its mappedProperties and
\* skippedProperties partition the field names of the source, a name being
\* mapped exactly if the destination has a field of that name; a call that
\* fails raises the failure map raises and leaves the caller a metadata
\* structure in which that failure is recorded.
C22_MetadataOnSuccessAndFailure ==
    call.op = "mapWithMetadata"
    => \E m \in {MapCall(Start, call.src, call.dst, FALSE)} :
         IF call.ok
         THEN /\ m.ok
              /\ StructurallyEqual(heap, call.ret, m.st.hp, m.ret)
              /\ Range(call.metadata.mappedProperties)
                    = {k \in Range(heap[call.src].keys) : Has(heap[call.ret], k)}
              /\ Range(call.metadata.skippedProperties)
                    = {k \in Range(heap[call.src].keys) : ~Has(heap[call.ret], k)}
              /\ call.metadata.errors = <<>>
         ELSE /\ ~m.ok
              /\ m.err = call.err
              /\ \E i \in DOMAIN call.metadata.errors :
                    call.metadata.errors[i].error = call.err.what

----------------------------------------------------------------------------
(* SpecOrder: the order of one map or mapAsync call.  The mapper holds an  *)
(* entry for (N, M) and an entry for (A, B) drawn with its hooks, a field  *)
(* function that returns or throws, and its cache option; the global cache *)
(* flag is switched on and off between calls.  B.z is mapped through the   *)
(* entry (N, M).                                                           *)

OrderInputs ==
    {Input(config,
           [NoOptions EXCEPT !.beforeMap = b, !.afterMap = a, !.strict = "on",
                             !.cache = c]) :
        config \in {Cfg1(nx_, FnConst("p")), Cfg1(ny, FnThrow)},
        b \in {"unset", "throw", "setx"}, a \in {"unset", "throw", "setx"},
        c \in {NoCache, Cache("on")}}

OrderInit ==
    \E s \in {PlainSource, NestingSource}, in \in OrderInputs :
        InitWithEntry(s, "B", in.config, in.options)

OrderNext == SyncMap \/ SyncMapAsync \/ SetCacheEnabled

SpecOrder == OrderInit /\ [][OrderNext]_vars

\* What a step that is a map or mapAsync call of a registered pair must
\* satisfy.  whole: a failing call leaves the whole instance cache as it
\* was; otherwise: it leaves the row of its own source and destination as
\* it was, and any row it changes is one a nested call wrote for a value
\* nested in the source.
OrderOfCall(whole) ==
    (call'.op \in {"map", "mapAsync"} /\ call'.entry # NoEntry)
    => \E c \in {call'}, e \in {call'.entry}, t \in {call'.trace} :
        \E hasBefore \in {HookIsFunction(e.options.beforeMap)},
           hasAfter \in {HookIsFunction(e.options.afterMap)},
           row \in {instanceCache[c.src][c.dst]} :
          IF c.hit
          THEN /\ t = <<>>
               /\ c.ret = row
               /\ instanceCache' = instanceCache
          ELSE /\ hasBefore => (t # <<>> /\ t[1] = Event("beforeMap", e, <<>>))
               /\ \A i \in DOMAIN t :
                     /\ (t[i].ev = "beforeMap" /\ t[i].entry = e) => (hasBefore /\ i = 1)
                     /\ (t[i].ev = "afterMap" /\ t[i].entry = e)
                        => (hasAfter /\ i = Len(t))
               /\ e.options.beforeMap = "throw"
                  => (~c.ok /\ Len(t) = 1 /\ c.afterCopy = Free)
               /\ (e.options.beforeMap = "setx" /\ c.ran # NoEntry)
                  => (Get(c.pre, nx) = "hook" /\ Get(c.afterCopy, nx) = "hook")
               /\ (hasAfter /\ c.out # Free)
                  => /\ t[Len(t)] = Event("afterMap", e, <<>>)
                     /\ c.afterFns # Free
               /\ (c.ok /\ e.options.afterMap = "setx") => Get(heap'[c.ret], nx) = "hook"
               /\ c.ok => instanceCache'[c.src][c.dst]
                              = IF isCacheEnabled(e) THEN c.ret ELSE row
               /\ ~c.ok
                  => IF whole THEN instanceCache' = instanceCache
                     ELSE /\ instanceCache'[c.src][c.dst] = row
                          /\ \A v \in Refs, d \in Classes :
                                instanceCache'[v][d] # instanceCache[v][d]
                                => /\ v \in FieldRefs(heap[c.src])
                                   /\ d = NestedType(c.dst, nz)

\* C23: in a call that misses the cache, beforeMap runs first, the closure
\* is given what beforeMap returned, afterMap runs after the three
\* field-population steps, the cache is written only after afterMap
\* returned; a call that fails leaves the instance cache as it was; a call
\* that hits the cache runs no hook.
C23_CallOrderAndNoWriteOnFailure == [][OrderOfCall(TRUE)]_vars

\* C23, amended: the same, except that a call that fails leaves the cache
\* row of its own source and destination as it was, while the rows that
\* nested calls wrote before the failure stay written.
C23_CallOrder == [][OrderOfCall(FALSE)]_vars

\* A map call with both hooks missed the cache, ran beforeMap first and
\* afterMap last, and its result is in the cache
C23_Witness ==
    /\ call.op = "map"
    /\ call.ok
    /\ ~call.hit
    /\ Len(call.trace) >= 3
    /\ call.trace[1].ev = "beforeMap"
    /\ call.trace[Len(call.trace)].ev = "afterMap"
    /\ Get(call.pre, nx) = "hook"
    /\ instanceCache[call.src][call.dst] = call.ret

\* What a step that is a map or mapAsync call leaves alone: the registry
\* list, the keyed index, the sync closures, the validation rules, the
\* global options and the global cache flag; of the async closures it sets
\* at most the one of the pair it looked up, and only in mapAsync; of the
\* instance cache it changes at most the row of its own source and
\* destination, and only when it succeeds with caching active for its entry.
\* nested: the rows that nested calls wrote for the values nested in the
\* source, and the async closures that nested mapAsync calls built for the
\* pairs they looked up, may change too.
FrameOfCall(nested) ==
    call'.op \in {"map", "mapAsync"}
    => \E c \in {call'}, e \in {call'.entry} :
        /\ registry' = registry
        /\ reverseRegistry' = reverseRegistry
        /\ compiledMapFns' = compiledMapFns
        /\ validationRules' = validationRules
        /\ globalOptions' = globalOptions
        /\ cacheConfig' = cacheConfig
        /\ \A k \in Keys :
              compiledAsyncMapFns'[k] # compiledAsyncMapFns[k]
              => /\ c.op = "mapAsync"
                 /\ e # NoEntry
                 /\ \/ k = getRegistryKey(e.source, e.destination)
                    \/ /\ nested
                       /\ \E v \in FieldRefs(heap[c.src]) :
                             k = getRegistryKey(ClassOf(v), NestedType(c.dst, nz))
        /\ \A v \in Refs, d \in Classes :
              instanceCache'[v][d] # instanceCache[v][d]
              => \/ /\ v = c.src
                    /\ d = c.dst
                    /\ c.ok
                    /\ e # NoEntry
                    /\ isCacheEnabled(e)
                 \/ /\ nested
                    /\ e # NoEntry
                    /\ v \in FieldRefs(heap[c.src])
                    /\ d = NestedType(c.dst, nz)

----------------------------------------------------------------------------
(* SpecNaming: the naming converter.  An identifier and a (from, to) pair  *)
(* of styles are drawn; the mapper holds an entry for (A, B) with that     *)
(* convertNaming option and r1 is an A whose one field has that name.  The *)
(* converter is applied to the identifier, and r1 is mapped.               *)

\* Identifiers with a leading, trailing or doubled separator, with a
\* leading capital, and without any of these; the empty identifier
Identifiers ==
    {<<>>, <<"x">>, <<"x", "_", "y">>, <<"x", "_">>, <<"_", "x">>,
     <<"x", "_", "_", "y">>, <<"x", "-", "y">>, <<"x", "-">>, <<"-", "x">>,
     <<"x", "-", "-", "y">>, <<"x", "Y">>, <<"X", "y">>, <<"X">>, <<"x", "Y", "_">>}

NamingInit ==
    \E propertyName \in Identifiers, from \in Styles, to \in Styles :
        InitWithEntry(Obj("A", <<propertyName>>, <<"v1">>), "B", <<>>,
                      [NoOptions EXCEPT !.convertNaming = Naming(from, to)])

\* convertNamingConvention(propertyName, from, to) for the name of the field
\* of r1 and the styles of the entry: it returns a string or raises
NamingConvert ==
    \E propertyName \in {heap["r1"].keys[1]},
       naming \in {registry[2].options.convertNaming} :
      \E returns \in {NamingReturns(propertyName, naming.from, naming.to)} :
        /\ call' = [CallRec("convertNamingConvention", None, None, NoOutcome, <<>>)
                       EXCEPT !.ok = returns,
                              !.err = IF returns THEN NoError ELSE RawError("TypeError"),
                              !.name = IF returns
                                       THEN convertNamingConvention(propertyName,
                                                naming.from, naming.to)
                                       ELSE <<>>]
        /\ UNCHANGED <<registry, reverseRegistry, compiledMapFns, compiledAsyncMapFns,
                       instanceCache, heap, globalOptions, cacheConfig,
                       validationRules, validation, promises>>

NamingNext == NamingConvert \/ SyncMap \/ SyncMapAsync

SpecNaming == NamingInit /\ [][NamingNext]_vars

\* C25: convertNamingConvention returns a string and raises nothing for
\* every identifier and every pair of styles, and no map or mapAsync call
\* of an entry with convertNaming and no hook or field function fails.
C25_ConverterTotal ==
    /\ call.op = "convertNamingConvention" => call.ok
    /\ call.op \in {"map", "mapAsync"} => call.ok

----------------------------------------------------------------------------
(* SpecReplace: re-registration with the cache active.  The mapper is      *)
(* built with the global cache flag on; createMap registers the pair       *)
(* (A, B) again and again with one of two field-function tables and with   *)
(* or without skipNulls; r1 and r6 are mapped between the registrations.   *)

ReplaceInit ==
    InitWith(CtorOptions(TRUE, TRUE, NoOptions, NoOptions, Cache("on")), SourceHeap)

ReplaceCreateMap ==
    CreateMapOf({<<"A", "B">>}, MainConfigs,
                {NoOptions, [NoOptions EXCEPT !.skipNulls = "on"]}, MaxRegistry)

ReplaceMap ==
    \E v \in {"r1", "r6"}, async \in BOOLEAN :
        MapBody(IF async THEN "mapAsync" ELSE "map", v, "B", async)

ReplaceNext == ReplaceCreateMap \/ ReplaceMap

SpecReplace == ReplaceInit /\ [][ReplaceNext]_vars

\* C27: with caching active, what a map call returns is a destination
\* computed by the entry registered last for its pair: it is equal, field
\* for field, to what that entry's closure makes of the source, also when
\* an entry registered before for the pair left a result in the cache.
C27_CachedResultIsOfCurrentEntry ==
    (call.op = "map" /\ call.ok)
    => \E mine \in {PairEntries(ClassOf(call.src), call.dst)} :
         \E latest \in {registry[CHOOSE i \in mine : \A j \in mine : j <= i]} :
           \E fresh \in {MapMiss(Start, call.src, call.dst, FALSE, heap[call.src],
                                  latest)} :
             /\ call.entry = latest
             /\ fresh.ok
             /\ StructurallyEqual(heap, call.ret, fresh.st.hp, fresh.ret)

----------------------------------------------------------------------------
(* SpecBuilder: one entry (A, B) registered through a MappingBuilder on    *)
(* which ignore(x) was called, after which map and mapAsync are called on  *)
(* r1.                                                                     *)

\* new MappingBuilder(mapper, source, destination): config = {}, options = {}
NewBuilder == [config |-> <<>>, options |-> NoOptions]

\* MappingBuilder.forMember(destinationKey, mapperFn):
\* this.config[destinationKey] = mapperFn.  A key already set keeps its
\* place in the enumeration order of the config object.
forMember(builder, destinationKey, mapperFn) ==
    [builder EXCEPT !.config = SetConfig(@, destinationKey, mapperFn)]

\* MappingBuilder.ignore(destinationKey):
\* this.config[destinationKey] = () => undefined
ignore(builder, destinationKey) ==
    forMember(builder, destinationKey, FnConst(UNDEF))

\* MappingBuilder.skipNulls(skip), skipUndefined(skip), deepClone(enable),
\* strict(enable): this.options[name] = flag
setOption(builder, name, flag) ==
    [builder EXCEPT !.options =
        [@ EXCEPT ![name] = IF flag THEN "on" ELSE "off"]]

\* A call on a builder
BuilderCall(op, key, fn, flag) == [op |-> op, key |-> key, fn |-> fn, flag |-> flag]

\* The builder after a chain of calls, leftmost first
RECURSIVE Chain(_, _)
Chain(builder, calls) ==
    IF calls = <<>> THEN builder
    ELSE \* bound once
         The({Chain(CASE c.op = "forMember" -> forMember(builder, c.key, c.fn)
                      [] c.op = "ignore" -> ignore(builder, c.key)
                      [] OTHER -> setOption(builder, c.op, c.flag),
                    Tail(calls)) : c \in {Head(calls)}})

IgnoreX == BuilderCall("ignore", nx, FnConst(UNDEF), TRUE)

OptionSetters ==
    {BuilderCall("skipNulls", nx, FnConst(UNDEF), TRUE),
     BuilderCall("skipUndefined", nx, FnConst(UNDEF), TRUE),
     BuilderCall("skipUndefined", nx, FnConst(UNDEF), FALSE),
     BuilderCall("deepClone", nx, FnConst(UNDEF), TRUE),
     BuilderCall("strict", nx, FnConst(UNDEF), TRUE)}

\* forMember calls made before ignore(x), ignore(x), and up to two option
\* setters
BuilderChains ==
    {before \o <<IgnoreX>> \o after :
        before \in {<<>>, <<BuilderCall("forMember", nx, FnConst("p"), TRUE)>>,
                          <<BuilderCall("forMember", ny, FnConst("q"), TRUE)>>},
        after \in {<<>>} \cup {<<a>> : a \in OptionSetters}
                         \cup {<<a, b>> : a \in OptionSetters, b \in OptionSetters}}

NullSource == Obj("A", <<nx, ny>>, <<NULL, "v3">>)

\* MappingBuilder.register(): createMap(source, destination, config, options)
BuilderInit ==
    \E s \in {PlainSource, NestingSource, NullSource}, calls \in BuilderChains :
        \E builder \in {Chain(NewBuilder, calls)} :
            InitWithEntry(s, "B", builder.config, builder.options)

BuilderNext == SyncMap \/ SyncMapAsync

SpecBuilder == BuilderInit /\ [][BuilderNext]_vars

\* C29: whatever option setters were called on the builder, a map or
\* mapAsync call of an entry built with ignore(x) returns a destination
\* whose field x does not hold the value of the source's field x.
C29_IgnoredFieldNeverCopied ==
    (/\ call.op \in {"map", "mapAsync"}
     /\ call.ok
     /\ Get(heap[call.src], nx) # UNDEF)
    => Get(heap[call.ret], nx) # Get(heap[call.src], nx)

====
